---- MODULE Spec2Model ----
(***************************************************************************)
(* A model of the taibai Go SDK's persistent WebSocket client              *)
(* (WebSocketClient: Connect / Disconnect / Reconnect, readLoop,           *)
(* writeLoop, heartbeatLoop, Subscribe / Unsubscribe / resubscribe) and of *)
(* the MessageHandler dispatcher wired to it by NewWSClient, and of the    *)
(* HTTP client's Config.Validate and Client.do.                            *)
(*                                                                         *)
(* Every goroutine of the program is a process of the model.  A step of    *)
(* the model is one access to shared state (a critical section under a     *)
(* mutex, one channel operation, one unsynchronised read or write of a     *)
(* field) together with the local computation that follows it.             *)
(***************************************************************************)
EXTENDS Integers, Sequences, FiniteSets, TLC

(***************************************************************************)
(* Bounds of the model.                                                    *)
(***************************************************************************)
\* threads that call Connect() / Reconnect() or run a spawned `go c.Reconnect()`
NProcs == 2
\* successful handshakes in one run (each spawns a reader, a writer, a heartbeat)
MaxConns == 2
\* dial attempts in one run
MaxDials == 3
\* largest configured MaxReconnectAttempts that Init draws (0 = unlimited)
MaxAttemptsCfg == 2
\* inbound frames read in one run
MaxFrames == 2
\* heartbeat ticks in one run
MaxTicks == 1
\* Subscribe / Unsubscribe calls in one run
MaxCalls == 3
\* handlers registered per category
MaxHandlers == 2
\* write errors reported in one run
MaxWriteErrs == 1
\* capacity of writeChan: make(chan []byte, 100), scaled down
WriteChanCap == 2
\* capacity of readChan: make(chan *WSMessage, 100), scaled down
ReadChanCap == 1

\* largest positive setting of a Config that Init draws, besides the defaults
MaxSetting == 2

\* Config.Validate's defaults: 30 * time.Second, 10, 90 * time.Second
DefaultTimeout == 30
DefaultMaxIdleConnections == 10
DefaultIdleConnTimeout == 90
\* `if resp.StatusCode >= 400`
ErrorStatus == 400

Procs == 1..NProcs
Slots == 1..MaxConns
Topics == {"t1", "t2"}

VARIABLES
    \* ---- WebSocketClient fields
    isConnected,      \* c.isConnected
    isReconnecting,   \* c.isReconnecting
    conn,             \* c.conn: 0 is nil, k > 0 the k-th dialled connection
    cancelled,        \* c.ctx is done (c.cancel() was called)
    closeChanClosed,  \* c.closeChan has been closed
    subscriptions,    \* c.subscriptions (the keys mapped to true)
    writeChan,        \* c.writeChan: the buffered frames, oldest first
    readChanLen,      \* number of messages buffered in c.readChan
    maxAttempts,      \* c.config.MaxReconnectAttempts
    onErrorSet,       \* c.OnError != nil
    url,              \* c.config.URL
    token,            \* c.config.Token
    \* ---- MessageHandler fields
    handlers,         \* number of handlers registered in each category's list
    reg,              \* per thread: its position in a handler registration
    \* ---- the environment
    open,             \* the dialled connections whose socket is open
    \* ---- goroutines
    proc,             \* per thread: its position in Connect() / Reconnect()
    pending,          \* `go c.Reconnect()` goroutines spawned and not yet running
    rd,               \* readLoop of the k-th connection
    wr,               \* writeLoop of the k-th connection
    hb,               \* heartbeatLoop of the k-th connection
    panicked,         \* "" or the operation whose fault ended the process
    \* ---- observation (history, no influence on the program)
    dials,            \* dial attempts made
    lastDial,         \* what the last dial attempt was made with: [url,
                      \* authorization] (NoDial: none yet)
    connsMade,        \* handshakes that succeeded
    cb,               \* how often each callback was invoked, by cause
    calls,            \* Subscribe / Unsubscribe calls made
    ticks,            \* heartbeat ticks
    frames,           \* frames read by the readers
    lastIn,           \* the frame read last (NoFrame: none yet)
    delivered,        \* whether OnMessage was invoked with lastIn
    lastInv,          \* the handler invocations <<category, index>> made for
                      \* lastIn, in order
    lastSent,         \* per topic: the serial of the Subscribe / Unsubscribe
                      \* frame for it that a writer wrote to a socket last
    last,             \* the last Subscribe / Unsubscribe call: [op, arg, ret,
                      \* sent], sent: whether it enqueued a frame
    \* ---- the HTTP client
    config,           \* the Config (durations in seconds)
    configWas,        \* the Config as it was before the last Validate() call
    validateRet,      \* what the last Validate() returned: "nil", "err"; "" none yet
    reply,            \* what the HTTP exchange of Client.do's call produces
    doRet             \* what Client.do returned: [resp, err]

cfgVars == <<maxAttempts, onErrorSet, url, token>>
connVars == <<isConnected, isReconnecting, conn, cancelled, closeChanClosed, open>>
subVars == <<subscriptions, writeChan>>
loopVars == <<rd, wr, hb>>
readVars == <<readChanLen, handlers, frames, lastIn, delivered, lastInv>>
obsVars == <<dials, connsMade, cb, calls, ticks, lastSent, last>>
httpVars == <<config, configWas, validateRet, reply, doRet>>
\* What no step of the WebSocket client changes, but the dial and the handler
\* registrations.
restVars == <<httpVars, reg, lastDial>>
wsVars == <<cfgVars, connVars, subVars, loopVars, readVars, obsVars, proc, pending, panicked,
           reg, lastDial>>
vars == <<wsVars, httpVars>>

(***************************************************************************)
(* Wire frames.  `by` and `n` are history: which producer built the frame, *)
(* and for a frame built by Subscribe / Unsubscribe the number of the      *)
(* call (0 for the other producers).                                       *)
(***************************************************************************)
\* WSSubscribeRequest{Type: "subscribe", Event: event}
SubscribeFrame(t, by, n) == [type |-> "subscribe", event |-> t, by |-> by, n |-> n]
\* WSSubscribeRequest{Type: "unsubscribe", Event: event}
UnsubscribeFrame(t, by, n) == [type |-> "unsubscribe", event |-> t, by |-> by, n |-> n]
\* WSMessage{Type: "ping", Event: "ping", Seq: now}
PingFrame == [type |-> "ping", event |-> "ping", by |-> "heartbeat", n |-> 0]

NoCall == [op |-> "none", arg |-> "", ret |-> "", sent |-> FALSE]

\* Inbound frames as they arrive on the socket: json = FALSE is a frame that
\* json.Unmarshal rejects; payloadOk says whether the typed decoder of the
\* event accepts the payload.  RawFrames: a malformed frame, every event in an
\* application frame, the typed events with a payload their decoder rejects,
\* and the keepalive types with keepalive and application events.
InEvents == {"user_message", "card_callback", "approval_change", "notice", "ping", "pong"}
TypedEvents == {"user_message", "card_callback", "approval_change"}
Frame(ty, ev, ok) == [json |-> TRUE, type |-> ty, event |-> ev, payloadOk |-> ok]
Malformed == [json |-> FALSE, type |-> "", event |-> "", payloadOk |-> FALSE]
NoFrame == [json |-> FALSE, type |-> "none", event |-> "", payloadOk |-> FALSE]
RawFrames ==
    {Malformed}
    \cup {Frame("message", ev, TRUE) : ev \in InEvents}
    \cup {Frame("message", ev, FALSE) : ev \in TypedEvents}
    \cup {Frame(ty, ev, TRUE) : ty \in {"ping", "pong"}, ev \in {"ping", "pong", "notice"}}

Categories == {"user", "card", "approval", "system"}

\* A thread that is in no call.  attempts: Reconnect's local counter; conn: the
\* connection Connect has dialled and not yet stored; snap/todo: resubscribe's
\* events slice and the part of it still to send.  History of the running
\* call: dials (its dial attempts), termErrs (its reports of the terminal
\* error), enq and drop (the frames its replay enqueued, and the frames it
\* dropped, per topic).  A thread that has returned from the application's
\* Connect() keeps what the call returned (ret) and its dials until its next
\* call.
IdleProc == [pc |-> "idle", op |-> "none", attempts |-> 0, conn |-> 0,
             snap |-> {}, todo |-> {}, dials |-> 0, termErrs |-> 0,
             enq |-> [t \in Topics |-> 0], drop |-> [t \in Topics |-> 0],
             ret |-> ""]

ZeroCb == [onConnect |-> 0, onDisconnect |-> 0, errConnect |-> 0, errMax |-> 0,
           errRead |-> 0, errParse |-> 0, errWrite |-> 0, errHandle |-> 0]

(***************************************************************************)
(* The HTTP client's data.                                                 *)
(***************************************************************************)
\* DefaultConfig()
DefaultConfig == [ServerAddress |-> "", Timeout |-> DefaultTimeout,
                  MaxIdleConnections |-> DefaultMaxIdleConnections,
                  IdleConnTimeout |-> DefaultIdleConnTimeout]

\* The Configs an application can hand to Validate(): with and without a
\* server address, every setting negative, zero, positive or the default.
ServerAddresses == {"", "localhost:8008"}
Settings == -1..MaxSetting
Configs == [ServerAddress : ServerAddresses,
            Timeout : Settings \cup {DefaultTimeout},
            MaxIdleConnections : Settings \cup {DefaultMaxIdleConnections},
            IdleConnTimeout : Settings \cup {DefaultIdleConnTimeout}]

\* What happens to one call of Client.do.  fail: the step of do that fails
\* ("marshal": json.Marshal of the request body, "request":
\* http.NewRequestWithContext, "transport": httpClient.Do, "read": io.ReadAll
\* of the response body), "" when the response is received in full; status
\* and body: the response (body: an ErrorResponse object, another JSON
\* object, a JSON string, or nothing).
StatusCodes == {100, 200, 201, 204, 301, 399, 400, 401, 404, 499, 500, 503}
Bodies == {"errorObject", "object", "string", "empty"}
NoReply == [fail |-> "none", status |-> 0, body |-> "empty"]
Replies ==
    {[fail |-> f, status |-> 0, body |-> "empty"] : f \in {"marshal", "request", "transport"}}
    \cup {[fail |-> f, status |-> st, body |-> b] :
             f \in {"", "read"}, st \in StatusCodes, b \in Bodies}

\* Client.do's results: (*Response, error)
NoResponse == [StatusCode |-> 0, Body |-> "nil"]
NoError == [kind |-> "nil", code |-> 0]
NoResult == [resp |-> NoResponse, err |-> [kind |-> "none", code |-> 0]]

\* No Validate() and no do() call has been made.
HttpIdle ==
    /\ config = DefaultConfig
    /\ configWas = DefaultConfig
    /\ validateRet = ""
    /\ reply = NoReply
    /\ doRet = NoResult

(***************************************************************************)
(* The WebSocket client's configuration and its dial.                      *)
(***************************************************************************)
\* The endpoints and the tokens an application configures.  No token is an
\* endpoint.
URLs == {"ws://hub.example/ws", "ws://alt.example/ws"}
Tokens == {"tokenA", "tokenB"}
DefaultURL == "ws://hub.example/ws"
DefaultToken == "tokenA"

\* fmt.Sprintf("%s?token=%s", a, b): the text, by its parts.
Sprintf(a, b) == <<a, "?token=", b>>

\* The part of a URL before its query.
Endpoint(u) == u[1]

\* header.Set("Authorization", fmt.Sprintf("Bearer %s", tok))
Bearer(tok) == <<"Bearer ", tok>>

\* What Connect() dials with: the URL and the Authorization header.
DialWith == [url |-> Sprintf(token, token), authorization |-> Bearer(token)]

NoDial == [url |-> <<>>, authorization |-> <<>>]

\* A thread that is in no handler registration.  cat: the category it
\* registers with; seen: the length of the list append() read.
IdleReg == [pc |-> "idle", cat |-> "", seen |-> 0]

(***************************************************************************)
(* NewWSClient / NewWebSocketClient / NewMessageHandler.                   *)
(***************************************************************************)
NewWebSocketClient(attemptCfgs, errorCbs, urls, tokens) ==
    /\ isConnected = FALSE
    /\ isReconnecting = FALSE
    /\ conn = 0
    /\ cancelled = FALSE
    /\ closeChanClosed = FALSE
    /\ subscriptions = {}
    /\ writeChan = <<>>
    /\ readChanLen = 0
    /\ maxAttempts \in attemptCfgs
    /\ onErrorSet \in errorCbs
    /\ url \in urls
    /\ token \in tokens
    /\ handlers = [c \in Categories |-> 0]
    /\ reg = [p \in Procs |-> IdleReg]
    /\ open = {}
    /\ proc = [p \in Procs |-> IdleProc]
    /\ pending = 0
    /\ rd = [i \in Slots |-> [pc |-> "off", conn |-> 0]]
    /\ wr = [i \in Slots |-> [pc |-> "off", msg |-> PingFrame]]
    /\ hb = [i \in Slots |-> "off"]
    /\ panicked = ""
    /\ dials = 0
    /\ lastDial = NoDial
    /\ connsMade = 0
    /\ cb = ZeroCb
    /\ calls = 0
    /\ ticks = 0
    /\ frames = 0
    /\ lastIn = NoFrame
    /\ delivered = FALSE
    /\ lastInv = <<>>
    /\ lastSent = [t \in Topics |-> 0]
    /\ last = NoCall

\* A client configured with the default endpoint and token.
ClientInit(attemptCfgs, errorCbs) ==
    NewWebSocketClient(attemptCfgs, errorCbs, {DefaultURL}, {DefaultToken})

InitWith(attemptCfgs, errorCbs) == ClientInit(attemptCfgs, errorCbs) /\ HttpIdle

Init == InitWith(0..MaxAttemptsCfg, BOOLEAN)

Running == panicked = ""

\* `if c.OnError != nil { c.OnError(err) }`: the callback counters after a
\* report of the given cause.
\* An error reported twice.
ReportTwice(cause) == IF onErrorSet THEN [cb EXCEPT ![cause] = @ + 2] ELSE cb

Report(cause) == IF onErrorSet THEN [cb EXCEPT ![cause] = @ + 1] ELSE cb

\* A send that puts the frame on the queue whatever the queue holds.
EnqueueAlways(q, f) == Append(q, f)

\* A queue that always reports room.
AlwaysRoom(q) == TRUE

\* `select { case c.writeChan <- data: default: }`
CanEnqueue(q) == Len(q) < WriteChanCap
TryEnqueue(q, f) == IF CanEnqueue(q) THEN Append(q, f) ELSE q

(***************************************************************************)
(* Connect(), one step per access to shared state.                         *)
(***************************************************************************)
\* The thread's record when Connect() returns res ("nil" or "err") to its
\* caller: the application, or Reconnect()'s loop (`if err == nil { return }`).
AfterConnect(pr, res) ==
    IF pr.op = "connect"
    THEN [IdleProc EXCEPT !.ret = res, !.dials = pr.dials]
    ELSE IF res = "nil"
         THEN [pr EXCEPT !.pc = "rDefer"]
         ELSE [pr EXCEPT !.pc = "rLoop"]

\* The application calls Connect().
CallConnect(p) ==
    /\ Running
    /\ proc[p].pc = "idle"
    /\ proc' = [proc EXCEPT ![p] = [IdleProc EXCEPT !.pc = "cCheck", !.op = "connect"]]
    /\ UNCHANGED <<restVars, cfgVars, connVars, subVars, loopVars, readVars, obsVars, pending, panicked>>

\* A Connect() that goes on to dial whatever c.isConnected says.
ConnCheckAlwaysDials(p) ==
    /\ Running
    /\ proc[p].pc = "cCheck"
    /\ proc' = [proc EXCEPT ![p] = [@ EXCEPT !.pc = "cDial"]]
    /\ UNCHANGED <<restVars, cfgVars, connVars, subVars, loopVars, readVars, obsVars, pending, panicked>>

\* c._mu.Lock(); if c.isConnected { return nil }
ConnCheck(p) ==
    /\ Running
    /\ proc[p].pc = "cCheck"
    /\ proc' = [proc EXCEPT ![p] =
                    IF isConnected THEN AfterConnect(@, "nil") ELSE [@ EXCEPT !.pc = "cDial"]]
    /\ UNCHANGED <<restVars, cfgVars, connVars, subVars, loopVars, readVars, obsVars, pending, panicked>>

\* conn, _, err := dialer.Dial(url, header); on an error OnError and return err.
Dial(p, ok) ==
    /\ Running
    /\ proc[p].pc = "cDial"
    /\ dials < MaxDials
    /\ dials' = dials + 1
    /\ lastDial' = DialWith
    /\ IF ok
       THEN /\ connsMade < MaxConns
            /\ connsMade' = connsMade + 1
            /\ open' = open \cup {connsMade + 1}
            /\ proc' = [proc EXCEPT ![p] = [@ EXCEPT !.pc = "cInstall",
                                                      !.conn = connsMade + 1,
                                                      !.dials = @ + 1]]
            /\ cb' = cb
       ELSE /\ cb' = Report("errConnect")
            /\ proc' = [proc EXCEPT ![p] = AfterConnect([@ EXCEPT !.dials = @ + 1], "err")]
            /\ UNCHANGED <<connsMade, open>>
    /\ UNCHANGED <<httpVars, reg, cfgVars, isConnected, isReconnecting, conn, cancelled,
                   closeChanClosed, subVars, loopVars, readVars, calls, ticks, lastSent, last,
                   pending, panicked>>

\* c.conn = conn; c.isConnected = true; c.isReconnecting = false (under c._mu),
\* then go c.readLoop(); go c.writeLoop(); go c.heartbeatLoop().
Install(p) ==
    /\ Running
    /\ proc[p].pc = "cInstall"
    /\ conn' = proc[p].conn
    /\ isConnected' = TRUE
    /\ isReconnecting' = FALSE
    /\ rd' = [rd EXCEPT ![proc[p].conn] = [pc |-> "top", conn |-> 0]]
    /\ wr' = [wr EXCEPT ![proc[p].conn] = [pc |-> "idle", msg |-> PingFrame]]
    /\ hb' = [hb EXCEPT ![proc[p].conn] = "on"]
    /\ proc' = [proc EXCEPT ![p] = [@ EXCEPT !.pc = "cOnConnect"]]
    /\ UNCHANGED <<restVars, cfgVars, cancelled, closeChanClosed, open, subVars, readVars, obsVars,
                   pending, panicked>>

\* A Connect() that invokes the connect callback twice.
OnConnectCbTwice(p) ==
    /\ Running
    /\ proc[p].pc = "cOnConnect"
    /\ cb' = [cb EXCEPT !.onConnect = @ + 2]
    /\ proc' = [proc EXCEPT ![p] = [@ EXCEPT !.pc = "cResub"]]
    /\ UNCHANGED <<restVars, cfgVars, connVars, subVars, loopVars, readVars, dials, connsMade, calls,
                   ticks, lastSent, last, pending, panicked>>

\* if c.OnConnect != nil { c.OnConnect() }
OnConnectCb(p) ==
    /\ Running
    /\ proc[p].pc = "cOnConnect"
    /\ cb' = [cb EXCEPT !.onConnect = @ + 1]
    /\ proc' = [proc EXCEPT ![p] = [@ EXCEPT !.pc = "cResub"]]
    /\ UNCHANGED <<restVars, cfgVars, connVars, subVars, loopVars, readVars, dials, connsMade, calls,
                   ticks, lastSent, last, pending, panicked>>

\* A replay of every topic, tracked or not.
ResubSnapshotAll(p) ==
    /\ Running
    /\ proc[p].pc = "cResub"
    /\ proc' = [proc EXCEPT ![p] = [@ EXCEPT !.pc = "cSend", !.snap = Topics, !.todo = Topics]]
    /\ UNCHANGED <<restVars, cfgVars, connVars, subVars, loopVars, readVars, obsVars, pending, panicked>>

\* resubscribe(): copy the keys of c.subscriptions under c.subMu.RLock().
ResubSnapshot(p) ==
    /\ Running
    /\ proc[p].pc = "cResub"
    /\ proc' = [proc EXCEPT ![p] =
                    IF subscriptions = {}
                    THEN AfterConnect([@ EXCEPT !.snap = {}, !.todo = {}], "nil")
                    ELSE [@ EXCEPT !.pc = "cSend", !.snap = subscriptions,
                                   !.todo = subscriptions]]
    /\ UNCHANGED <<restVars, cfgVars, connVars, subVars, loopVars, readVars, obsVars, pending, panicked>>

\* An iteration that sends the topic's frame twice.
ResubSendTwice(p, t) ==
    /\ Running
    /\ proc[p].pc = "cSend"
    /\ t \in proc[p].todo
    /\ writeChan' = TryEnqueue(TryEnqueue(writeChan, SubscribeFrame(t, "replay", 0)),
                               SubscribeFrame(t, "replay", 0))
    /\ LET pr == [proc[p] EXCEPT !.todo = @ \ {t},
                                  !.enq[t] = @ + Len(writeChan') - Len(writeChan),
                                  !.drop[t] = IF CanEnqueue(writeChan) THEN @ ELSE @ + 1]
       IN proc' = [proc EXCEPT ![p] = IF pr.todo = {} THEN AfterConnect(pr, "nil") ELSE pr]
    /\ UNCHANGED <<restVars, cfgVars, connVars, subscriptions, loopVars, readVars, obsVars, pending,
                   panicked>>

\* An iteration that stops tracking the topic whose frame it drops.
ResubSendForgets(p, t) ==
    /\ Running
    /\ proc[p].pc = "cSend"
    /\ t \in proc[p].todo
    /\ writeChan' = TryEnqueue(writeChan, SubscribeFrame(t, "replay", 0))
    /\ subscriptions' = IF CanEnqueue(writeChan) THEN subscriptions ELSE subscriptions \ {t}
    /\ LET pr == [proc[p] EXCEPT !.todo = @ \ {t},
                                  !.enq[t] = IF CanEnqueue(writeChan) THEN @ + 1 ELSE @,
                                  !.drop[t] = IF CanEnqueue(writeChan) THEN @ ELSE @ + 1]
       IN proc' = [proc EXCEPT ![p] = IF pr.todo = {} THEN AfterConnect(pr, "nil") ELSE pr]
    /\ UNCHANGED <<restVars, cfgVars, connVars, loopVars, readVars, obsVars, pending, panicked>>

\* resubscribe(): one iteration of `for _, event := range events`, a
\* non-blocking send of the subscribe frame (map order: any order).
ResubSend(p, t) ==
    /\ Running
    /\ proc[p].pc = "cSend"
    /\ t \in proc[p].todo
    /\ writeChan' = TryEnqueue(writeChan, SubscribeFrame(t, "replay", 0))
    /\ LET pr == [proc[p] EXCEPT !.todo = @ \ {t},
                                  !.enq[t] = IF CanEnqueue(writeChan) THEN @ + 1 ELSE @,
                                  !.drop[t] = IF CanEnqueue(writeChan) THEN @ ELSE @ + 1]
       IN proc' = [proc EXCEPT ![p] = IF pr.todo = {} THEN AfterConnect(pr, "nil") ELSE pr]
    /\ UNCHANGED <<restVars, cfgVars, connVars, subscriptions, loopVars, readVars, obsVars, pending,
                   panicked>>

(***************************************************************************)
(* Disconnect(): one critical section under c._mu.                         *)
(***************************************************************************)
Disconnect ==
    /\ Running
    /\ cancelled' = TRUE
    /\ IF conn # 0
       THEN open' = open \ {conn} /\ isConnected' = FALSE
       ELSE UNCHANGED <<open, isConnected>>
    \* close(c.closeChan): closing a closed channel panics
    /\ IF closeChanClosed
       THEN panicked' = "Disconnect" /\ UNCHANGED closeChanClosed
       ELSE closeChanClosed' = TRUE /\ UNCHANGED panicked
    /\ UNCHANGED <<restVars, cfgVars, isReconnecting, conn, subVars, loopVars, readVars, dials,
                   connsMade, cb, calls, ticks, lastSent, last, proc, pending>>

(***************************************************************************)
(* Reconnect().                                                            *)
(***************************************************************************)
\* The limit check with `>=` in the place of `>`.
ExhaustedOffByOne(attempts) == maxAttempts > 0 /\ attempts >= maxAttempts

\* `attempts > c.config.MaxReconnectAttempts` with a positive limit
Exhausted(attempts) == maxAttempts > 0 /\ attempts > maxAttempts

\* The application calls Reconnect().
CallReconnect(p) ==
    /\ Running
    /\ proc[p].pc = "idle"
    /\ proc' = [proc EXCEPT ![p] = [IdleProc EXCEPT !.pc = "rGuard", !.op = "reconnect"]]
    /\ UNCHANGED <<restVars, cfgVars, connVars, subVars, loopVars, readVars, obsVars, pending, panicked>>

\* A goroutine spawned by handleDisconnect's `go c.Reconnect()` starts to run.
StartSpawned(p) ==
    /\ Running
    /\ proc[p].pc = "idle"
    /\ pending > 0
    /\ pending' = pending - 1
    /\ proc' = [proc EXCEPT ![p] = [IdleProc EXCEPT !.pc = "rGuard", !.op = "reconnect"]]
    /\ UNCHANGED <<restVars, cfgVars, connVars, subVars, loopVars, readVars, obsVars, panicked>>

\* if c.isReconnecting { return }   (read without a lock)
RcGuard(p) ==
    /\ Running
    /\ proc[p].pc = "rGuard"
    /\ proc' = [proc EXCEPT ![p] =
                    IF isReconnecting THEN IdleProc
                    ELSE [@ EXCEPT !.pc = "rSet"]]
    /\ UNCHANGED <<restVars, cfgVars, connVars, subVars, loopVars, readVars, obsVars, pending, panicked>>

\* c.isReconnecting = true; defer ...; attempts := 0
RcSet(p) ==
    /\ Running
    /\ proc[p].pc = "rSet"
    /\ isReconnecting' = TRUE
    /\ proc' = [proc EXCEPT ![p] = [@ EXCEPT !.pc = "rLoop", !.attempts = 0]]
    /\ UNCHANGED <<restVars, cfgVars, isConnected, conn, cancelled, closeChanClosed, open, subVars,
                   loopVars, readVars, obsVars, pending, panicked>>

\* A loop without the limit check.
RcLoopNoLimit(p) ==
    /\ Running
    /\ proc[p].pc = "rLoop"
    /\ proc' = [proc EXCEPT ![p] = IF cancelled
                                   THEN [@ EXCEPT !.pc = "rDefer"]
                                   ELSE [@ EXCEPT !.pc = "cCheck", !.attempts = @ + 1]]
    /\ UNCHANGED <<restVars, cfgVars, connVars, subVars, loopVars, readVars, obsVars, pending, panicked>>

\* The head of the loop: the ctx.Done() check, attempts++, the limit check
\* (OnError and return), then time.Sleep; Connect() is the next step.
RcLoop(p) ==
    /\ Running
    /\ proc[p].pc = "rLoop"
    /\ IF cancelled
       THEN /\ proc' = [proc EXCEPT ![p] = [@ EXCEPT !.pc = "rDefer"]]
            /\ cb' = cb
       ELSE IF Exhausted(proc[p].attempts + 1)
            THEN /\ proc' = [proc EXCEPT ![p] =
                                [@ EXCEPT !.pc = "rDefer",
                                          !.attempts = @ + 1,
                                          !.termErrs = IF onErrorSet THEN @ + 1 ELSE @]]
                 /\ cb' = Report("errMax")
            ELSE /\ proc' = [proc EXCEPT ![p] = [@ EXCEPT !.pc = "cCheck",
                                                           !.attempts = @ + 1]]
                 /\ cb' = cb
    /\ UNCHANGED <<restVars, cfgVars, connVars, subVars, loopVars, readVars, dials, connsMade, calls,
                   ticks, lastSent, last, pending, panicked>>

\* defer func() { c.isReconnecting = false }()
RcDefer(p) ==
    /\ Running
    /\ proc[p].pc = "rDefer"
    /\ isReconnecting' = FALSE
    /\ proc' = [proc EXCEPT ![p] = IdleProc]
    /\ UNCHANGED <<restVars, cfgVars, isConnected, conn, cancelled, closeChanClosed, open, subVars,
                   loopVars, readVars, obsVars, pending, panicked>>

(***************************************************************************)
(* readLoop and handleDisconnect.                                          *)
(***************************************************************************)
\* What conn.ReadMessage() can return instead of a frame: a close frame of
\* the peer with code 1000 / 1001 / 1011, a connection lost without a close
\* frame (1006), a network error or the read deadline.
PeerCloses == {"normal", "goingAway", "abnormal", "internalErr"}
ReadErrors == PeerCloses \cup {"netErr"}

\* websocket.IsUnexpectedCloseError(err, CloseGoingAway, CloseAbnormalClosure):
\* a close error whose code is not one of the two listed.
IsUnexpectedCloseError(kind) == kind \in PeerCloses \ {"goingAway", "abnormal"}

\* `if wsMsg.Type == "pong" || wsMsg.Event == "pong" { continue }`
IsHeartbeatReply(m) == m.type = "pong" \/ m.event = "pong"

\* A switch with nothing but its default branch.
CategoryAllSystem(ev) == "system"

\* MessageHandler.Handle: the switch on wsMsg.Event
Category(ev) ==
    CASE ev = "user_message" -> "user"
      [] ev = "card_callback" -> "card"
      [] ev = "approval_change" -> "approval"
      [] OTHER -> "system"

\* handleUserMessage / handleCardCallback / handleApprovalChange return an
\* error when json.Unmarshal rejects the payload; handleSystem never does.
HandleFails(m) == m.event \in TypedEvents /\ ~m.payloadOk

\* The range over the handlers stopping one short.
InvocationsSkipLast(m) ==
    IF HandleFails(m) THEN <<>>
    ELSE [k \in 1..(handlers[Category(m.event)] - 1) |-> <<Category(m.event), k>>]

\* The range over the handlers taken from the last registered to the first.
InvocationsReversed(m) ==
    IF HandleFails(m) THEN <<>>
    ELSE [k \in 1..handlers[Category(m.event)] |->
             <<Category(m.event), handlers[Category(m.event)] + 1 - k>>]

\* `for _, fn := range h.<X>Handlers { fn(...) }`: the invocations Handle makes
Invocations(m) ==
    IF HandleFails(m) THEN <<>>
    ELSE [k \in 1..handlers[Category(m.event)] |-> <<Category(m.event), k>>]

\* A handleDisconnect without its `go c.Reconnect()`.
HandleDisconnectNoReconnect(errCause) ==
    /\ isConnected' = FALSE
    /\ cb' = [(IF errCause = "" THEN cb ELSE Report(errCause))
                EXCEPT !.onDisconnect = IF isConnected THEN @ + 1 ELSE @]
    /\ pending' = pending

\* handleDisconnect: wasConnected := c.isConnected; c.isConnected = false;
\* OnDisconnect if wasConnected; go c.Reconnect().  errCause: the OnError
\* report readLoop made before it returned ("" for none).
HandleDisconnect(errCause) ==
    /\ isConnected' = FALSE
    /\ cb' = [(IF errCause = "" THEN cb ELSE Report(errCause))
                EXCEPT !.onDisconnect = IF isConnected THEN @ + 1 ELSE @]
    /\ pending' = pending + 1

\* The head of readLoop's loop: return if ctx is done, else start the
\* blocking c.conn.ReadMessage() on the connection c.conn names now.
RdTop(i) ==
    /\ Running
    /\ rd[i].pc = "top"
    /\ IF cancelled
       THEN /\ rd' = [rd EXCEPT ![i] = [pc |-> "off", conn |-> 0]]
            /\ HandleDisconnect("")
       ELSE /\ rd' = [rd EXCEPT ![i] = [pc |-> "read", conn |-> conn]]
            /\ UNCHANGED <<isConnected, cb, pending>>
    /\ UNCHANGED <<restVars, cfgVars, isReconnecting, conn, cancelled, closeChanClosed, open, subVars,
                   wr, hb, readVars, dials, connsMade, calls, ticks, lastSent, last, proc,
                   panicked>>

\* ReadMessage() returns an error: OnError for an unexpected close error,
\* return, and the deferred handleDisconnect.
RdError(i, kind) ==
    /\ Running
    /\ rd[i].pc = "read"
    /\ IF kind \in PeerCloses
       THEN rd[i].conn \in open /\ open' = open \ {rd[i].conn}
       ELSE open' = open
    /\ rd' = [rd EXCEPT ![i] = [pc |-> "off", conn |-> 0]]
    /\ HandleDisconnect(IF IsUnexpectedCloseError(kind) THEN "errRead" ELSE "")
    /\ UNCHANGED <<restVars, cfgVars, isReconnecting, conn, cancelled, closeChanClosed, subVars,
                   wr, hb, readVars, dials, connsMade, calls, ticks, lastSent, last, proc,
                   panicked>>

\* A reader whose send to readChan blocks while the buffer is full.
RdFrameBlocking(i, raw) ==
    /\ Running
    /\ rd[i].pc = "read"
    /\ rd[i].conn \in open
    /\ frames < MaxFrames
    /\ frames' = frames + 1
    /\ lastIn' = raw
    /\ IF ~raw.json
       THEN /\ rd' = [rd EXCEPT ![i] = [pc |-> "top", conn |-> 0]]
            /\ cb' = Report("errParse")
            /\ delivered' = FALSE
            /\ lastInv' = <<>>
            /\ UNCHANGED <<readChanLen, panicked>>
       ELSE IF IsHeartbeatReply(raw)
            THEN /\ rd' = [rd EXCEPT ![i] = [pc |-> "top", conn |-> 0]]
                 /\ delivered' = FALSE
                 /\ lastInv' = <<>>
                 /\ UNCHANGED <<cb, readChanLen, panicked>>
            ELSE IF readChanLen >= ReadChanCap
                 THEN /\ rd' = [rd EXCEPT ![i] = [pc |-> "send", conn |-> 0]]
                      /\ delivered' = FALSE
                      /\ lastInv' = <<>>
                      /\ UNCHANGED <<cb, readChanLen, panicked>>
                 ELSE /\ rd' = [rd EXCEPT ![i] = [pc |-> "top", conn |-> 0]]
                      /\ readChanLen' = readChanLen + 1
                      /\ delivered' = TRUE
                      /\ lastInv' = Invocations(raw)
                      /\ IF HandleFails(raw)
                         THEN IF onErrorSet
                              THEN cb' = [cb EXCEPT !.errHandle = @ + 1] /\ panicked' = panicked
                              ELSE cb' = cb /\ panicked' = "OnMessage"
                         ELSE UNCHANGED <<cb, panicked>>
    /\ UNCHANGED <<restVars, cfgVars, connVars, subVars, wr, hb, handlers, dials, connsMade, calls,
                   ticks, lastSent, last, proc, pending>>

\* ReadMessage() returns a frame: json.Unmarshal, the pong filter, the
\* non-blocking send to readChan, OnMessage (NewWSClient: handler.Handle, and
\* ws.OnError(err) without a nil check when Handle fails).
RdFrame(i, raw) ==
    /\ Running
    /\ rd[i].pc = "read"
    /\ rd[i].conn \in open
    /\ frames < MaxFrames
    /\ frames' = frames + 1
    /\ lastIn' = raw
    /\ rd' = [rd EXCEPT ![i] = [pc |-> "top", conn |-> 0]]
    /\ IF ~raw.json
       THEN /\ cb' = Report("errParse")
            /\ delivered' = FALSE
            /\ lastInv' = <<>>
            /\ UNCHANGED <<readChanLen, panicked>>
       ELSE IF IsHeartbeatReply(raw)
            THEN /\ delivered' = FALSE
                 /\ lastInv' = <<>>
                 /\ UNCHANGED <<cb, readChanLen, panicked>>
            ELSE /\ readChanLen' = IF readChanLen < ReadChanCap THEN readChanLen + 1
                                   ELSE readChanLen
                 /\ delivered' = TRUE
                 /\ lastInv' = Invocations(raw)
                 /\ IF HandleFails(raw)
                    THEN IF onErrorSet
                         THEN cb' = [cb EXCEPT !.errHandle = @ + 1] /\ panicked' = panicked
                         ELSE cb' = cb /\ panicked' = "OnMessage"
                    ELSE UNCHANGED <<cb, panicked>>
    /\ UNCHANGED <<restVars, cfgVars, connVars, subVars, wr, hb, handlers, dials, connsMade, calls,
                   ticks, lastSent, last, proc, pending>>

(***************************************************************************)
(* writeLoop.                                                              *)
(***************************************************************************)
\* case message := <-c.writeChan
WrRecv(i) ==
    /\ Running
    /\ wr[i].pc = "idle"
    /\ writeChan # <<>>
    /\ wr' = [wr EXCEPT ![i] = [pc |-> "write", msg |-> Head(writeChan)]]
    /\ writeChan' = Tail(writeChan)
    /\ UNCHANGED <<restVars, cfgVars, connVars, subscriptions, rd, hb, readVars, obsVars, proc,
                   pending, panicked>>

\* A writer that starts a reconnection when its write fails.
WrWriteReconnects(i) ==
    /\ Running
    /\ wr[i].pc = "write"
    /\ wr' = [wr EXCEPT ![i] = [pc |-> "idle", msg |-> PingFrame]]
    /\ IF conn \in open
       THEN /\ lastSent' = IF wr[i].msg.by = "api"
                           THEN [lastSent EXCEPT ![wr[i].msg.event] = wr[i].msg.n]
                           ELSE lastSent
            /\ UNCHANGED <<cb, pending>>
       ELSE /\ lastSent' = lastSent
            /\ cb' = Report("errWrite")
            /\ pending' = pending + 1
    /\ UNCHANGED <<restVars, cfgVars, connVars, subVars, rd, hb, readVars, dials, connsMade, calls,
                   ticks, last, proc, panicked>>

\* c.conn.WriteMessage(websocket.TextMessage, message), OnError on an error
WrWrite(i) ==
    /\ Running
    /\ wr[i].pc = "write"
    /\ wr' = [wr EXCEPT ![i] = [pc |-> "idle", msg |-> PingFrame]]
    /\ IF conn \in open
       THEN /\ lastSent' = IF wr[i].msg.by = "api"
                           THEN [lastSent EXCEPT ![wr[i].msg.event] = wr[i].msg.n]
                           ELSE lastSent
            /\ cb' = cb
       ELSE /\ lastSent' = lastSent
            /\ cb' = Report("errWrite")
    /\ UNCHANGED <<restVars, cfgVars, connVars, subVars, rd, hb, readVars, dials, connsMade, calls,
                   ticks, last, proc, pending, panicked>>

\* case <-ticker.C: c.conn.WriteMessage(websocket.PingMessage, ...)
WrTick(i) ==
    /\ Running
    /\ wr[i].pc = "idle"
    /\ IF conn \in open
       THEN cb' = cb
       ELSE cb.errWrite < MaxWriteErrs /\ cb' = Report("errWrite")
    /\ UNCHANGED <<restVars, cfgVars, connVars, subVars, loopVars, readVars, dials, connsMade, calls,
                   ticks, lastSent, last, proc, pending, panicked>>

\* case <-c.ctx.Done(): return
WrExit(i) ==
    /\ Running
    /\ wr[i].pc = "idle"
    /\ cancelled
    /\ wr' = [wr EXCEPT ![i] = [pc |-> "off", msg |-> PingFrame]]
    /\ UNCHANGED <<restVars, cfgVars, connVars, subVars, rd, hb, readVars, obsVars, proc, pending,
                   panicked>>

(***************************************************************************)
(* heartbeatLoop and sendPing.                                             *)
(***************************************************************************)
\* case <-ticker.C: c.sendPing()
HbTick(i) ==
    /\ Running
    /\ hb[i] = "on"
    /\ ticks < MaxTicks
    /\ ticks' = ticks + 1
    /\ writeChan' = TryEnqueue(writeChan, PingFrame)
    /\ UNCHANGED <<restVars, cfgVars, connVars, subscriptions, loopVars, readVars, dials, connsMade,
                   cb, calls, lastSent, last, proc, pending, panicked>>

\* A heartbeat loop whose select never takes the ctx.Done() case.
HbNeverExits(i) ==
    /\ Running
    /\ hb[i] = "on"
    /\ cancelled
    /\ UNCHANGED vars

\* case <-c.ctx.Done(): return
HbExit(i) ==
    /\ Running
    /\ hb[i] = "on"
    /\ cancelled
    /\ hb' = [hb EXCEPT ![i] = "off"]
    /\ UNCHANGED <<restVars, cfgVars, connVars, subVars, rd, wr, readVars, obsVars, proc, pending,
                   panicked>>

(***************************************************************************)
(* Subscribe / Unsubscribe: one critical section under c.subMu each.       *)
(***************************************************************************)
\* The tracked set never consulted.
NeverSubscribed(t) == FALSE

\* `if c.subscriptions[event] { return nil }`
AlreadySubscribed(t) == t \in subscriptions

Subscribe(t) ==
    /\ Running
    /\ calls < MaxCalls
    /\ calls' = calls + 1
    /\ IF AlreadySubscribed(t)
       THEN /\ UNCHANGED <<subscriptions, writeChan>>
            /\ last' = [op |-> "Subscribe", arg |-> t, ret |-> "nil", sent |-> FALSE]
       ELSE IF CanEnqueue(writeChan)
            THEN /\ writeChan' = Append(writeChan, SubscribeFrame(t, "api", calls + 1))
                 /\ subscriptions' = subscriptions \cup {t}
                 /\ last' = [op |-> "Subscribe", arg |-> t, ret |-> "nil", sent |-> TRUE]
            ELSE /\ UNCHANGED <<subscriptions, writeChan>>
                 /\ last' = [op |-> "Subscribe", arg |-> t, ret |-> "full", sent |-> FALSE]
    /\ UNCHANGED <<restVars, cfgVars, connVars, loopVars, readVars, dials, connsMade, cb, ticks,
                   lastSent, proc, pending, panicked>>

\* An Unsubscribe that forgets the topic whether or not its frame was enqueued.
UnsubscribeEager(t) ==
    /\ Running
    /\ calls < MaxCalls
    /\ calls' = calls + 1
    /\ subscriptions' = subscriptions \ {t}
    /\ IF ~AlreadySubscribed(t)
       THEN /\ UNCHANGED writeChan
            /\ last' = [op |-> "Unsubscribe", arg |-> t, ret |-> "nil", sent |-> FALSE]
       ELSE IF CanEnqueue(writeChan)
            THEN /\ writeChan' = Append(writeChan, UnsubscribeFrame(t, "api", calls + 1))
                 /\ last' = [op |-> "Unsubscribe", arg |-> t, ret |-> "nil", sent |-> TRUE]
            ELSE /\ UNCHANGED writeChan
                 /\ last' = [op |-> "Unsubscribe", arg |-> t, ret |-> "full", sent |-> FALSE]
    /\ UNCHANGED <<restVars, cfgVars, connVars, loopVars, readVars, dials, connsMade, cb, ticks,
                   lastSent, proc, pending, panicked>>

Unsubscribe(t) ==
    /\ Running
    /\ calls < MaxCalls
    /\ calls' = calls + 1
    /\ IF ~AlreadySubscribed(t)
       THEN /\ UNCHANGED <<subscriptions, writeChan>>
            /\ last' = [op |-> "Unsubscribe", arg |-> t, ret |-> "nil", sent |-> FALSE]
       ELSE IF CanEnqueue(writeChan)
            THEN /\ writeChan' = Append(writeChan, UnsubscribeFrame(t, "api", calls + 1))
                 /\ subscriptions' = subscriptions \ {t}
                 /\ last' = [op |-> "Unsubscribe", arg |-> t, ret |-> "nil", sent |-> TRUE]
            ELSE /\ UNCHANGED <<subscriptions, writeChan>>
                 /\ last' = [op |-> "Unsubscribe", arg |-> t, ret |-> "full", sent |-> FALSE]
    /\ UNCHANGED <<restVars, cfgVars, connVars, loopVars, readVars, dials, connsMade, cb, ticks,
                   lastSent, proc, pending, panicked>>

(***************************************************************************)
(* MessageHandler.OnUserMessage / OnCardCallback / OnApprovalChange /      *)
(* OnSystem: append to the category's list.                                *)
(***************************************************************************)
Register(c) ==
    /\ Running
    /\ handlers[c] < MaxHandlers
    /\ handlers' = [handlers EXCEPT ![c] = @ + 1]
    /\ UNCHANGED <<restVars, cfgVars, connVars, subVars, loopVars, readChanLen, frames, lastIn,
                   delivered, lastInv, obsVars, proc, pending, panicked>>

(***************************************************************************)
(* The MessageHandler used by several threads at once.  The lists are      *)
(* plain slices and no lock guards them: `h.X = append(h.X, fn)` reads the *)
(* list, builds the list it read with fn added, and stores it, a slice     *)
(* header of three words; other threads can run in between.  The lists are *)
(* made with capacity 0, so the first appends build a new array.           *)
(***************************************************************************)
\* append(h.X, fn): read h.X
RegLoad(p, c) ==
    /\ Running
    /\ reg[p].pc = "idle"
    /\ reg' = [reg EXCEPT ![p] = [pc |-> "append", cat |-> c, seen |-> handlers[c]]]
    /\ UNCHANGED <<httpVars, lastDial, cfgVars, connVars, subVars, loopVars, readVars, obsVars,
                   proc, pending, panicked>>

\* h.X = ...: the store of the new header begins
RegStoreBegin(p) ==
    /\ Running
    /\ reg[p].pc = "append"
    /\ reg' = [reg EXCEPT ![p] = [@ EXCEPT !.pc = "store"]]
    /\ UNCHANGED <<httpVars, lastDial, cfgVars, connVars, subVars, loopVars, readVars, obsVars,
                   proc, pending, panicked>>

\* h.X = ...: the store is complete; the registration returns
RegStore(p) ==
    /\ Running
    /\ reg[p].pc = "store"
    /\ handlers' = [handlers EXCEPT ![reg[p].cat] = reg[p].seen + 1]
    /\ reg' = [reg EXCEPT ![p] = [@ EXCEPT !.pc = "done"]]
    /\ UNCHANGED <<httpVars, lastDial, cfgVars, connVars, subVars, loopVars, readChanLen, frames,
                   lastIn, delivered, lastInv, obsVars, proc, pending, panicked>>

\* The frames readLoop hands to Handle() whose payload the decoder accepts.
Dispatched == {m \in RawFrames : m.json /\ ~IsHeartbeatReply(m) /\ ~HandleFails(m)}

\* Handle(m) called while registrations may be running: `range h.X` reads the
\* header once.  It reads the header as it is stored, or, while a store to
\* the list is in progress, the new header or a mix of the two: the old
\* array with the new length, whose last element is not a handler.
HandleRacing(m) ==
    /\ Running
    /\ m \in Dispatched
    /\ frames < MaxFrames
    /\ frames' = frames + 1
    /\ lastIn' = m
    /\ delivered' = TRUE
    /\ LET c == Category(m.event)
           storing == {p \in Procs : reg[p].pc = "store" /\ reg[p].cat = c}
       IN \/ lastInv' = Invocations(m) /\ panicked' = panicked
          \/ \E p \in storing : /\ lastInv' = [k \in 1..(reg[p].seen + 1) |-> <<c, k>>]
                                 /\ panicked' = panicked
          \/ storing # {} /\ lastInv' = Invocations(m) /\ panicked' = "Handle"
    /\ UNCHANGED <<httpVars, reg, lastDial, cfgVars, connVars, subVars, loopVars, readChanLen,
                   handlers, obsVars, proc, pending>>

(***************************************************************************)
(* Config.Validate.                                                        *)
(***************************************************************************)
\* A check that leaves a zero setting as it is.
DefaultedStrict(v, d) == IF v < 0 THEN d ELSE v

\* `if c.X <= 0 { c.X = <default> }`
Defaulted(v, d) == IF v <= 0 THEN d ELSE v

\* `if c.ServerAddress == "" { return ErrInvalidServerAddress }`
Invalid(c) == c.ServerAddress = ""

\* The Config after Validate(): untouched when it returns the error.
Validated(c) ==
    IF Invalid(c) THEN c
    ELSE [c EXCEPT !.Timeout = Defaulted(@, DefaultTimeout),
                   !.MaxIdleConnections = Defaulted(@, DefaultMaxIdleConnections),
                   !.IdleConnTimeout = Defaulted(@, DefaultIdleConnTimeout)]

\* The application calls config.Validate().
ValidateConfig ==
    /\ configWas' = config
    /\ config' = Validated(config)
    /\ validateRet' = IF Invalid(config) THEN "err" ELSE "nil"
    /\ UNCHANGED <<wsVars, reply, doRet>>

(***************************************************************************)
(* Client.do.                                                              *)
(***************************************************************************)
\* A check that lets the status 400 through.
IsErrorStatusStrict(st) == st > ErrorStatus

\* `if resp.StatusCode >= 400`
IsErrorStatus(st) == st >= ErrorStatus

\* json.Unmarshal(respBody, &errResp) succeeds: the body is a JSON object.
DecodesAsErrorResponse(b) == b \in {"errorObject", "object"}

\* do's return values for the exchange r: the error of the failing step, or
\* for a status of 400 and more an *APIError with the status as its code (the
\* body decodes) or a formatted error (it does not), or the Response.
Do(r) ==
    IF r.fail # ""
    THEN [resp |-> NoResponse, err |-> [kind |-> r.fail, code |-> 0]]
    ELSE IF IsErrorStatus(r.status)
         THEN [resp |-> NoResponse,
               err |-> IF DecodesAsErrorResponse(r.body)
                       THEN [kind |-> "APIError", code |-> r.status]
                       ELSE [kind |-> "status", code |-> r.status]]
         ELSE [resp |-> [StatusCode |-> r.status, Body |-> r.body], err |-> NoError]

\* The application's call of a method that goes through Client.do returns.
DoRequest ==
    /\ reply # NoReply
    /\ doRet' = Do(reply)
    /\ UNCHANGED <<wsVars, config, configWas, validateRet, reply>>

(***************************************************************************)
(* The whole client.                                                       *)
(***************************************************************************)
Next ==
    \/ \E p \in Procs : CallConnect(p)
    \/ \E p \in Procs : ConnCheck(p)
    \/ \E p \in Procs, ok \in BOOLEAN : Dial(p, ok)
    \/ \E p \in Procs : Install(p)
    \/ \E p \in Procs : OnConnectCb(p)
    \/ \E p \in Procs : ResubSnapshot(p)
    \/ \E p \in Procs, t \in Topics : ResubSend(p, t)
    \/ Disconnect
    \/ \E p \in Procs : CallReconnect(p)
    \/ \E p \in Procs : StartSpawned(p)
    \/ \E p \in Procs : RcGuard(p)
    \/ \E p \in Procs : RcSet(p)
    \/ \E p \in Procs : RcLoop(p)
    \/ \E p \in Procs : RcDefer(p)
    \/ \E i \in Slots : RdTop(i)
    \/ \E i \in Slots, kind \in ReadErrors : RdError(i, kind)
    \/ \E i \in Slots, raw \in RawFrames : RdFrame(i, raw)
    \/ \E i \in Slots : WrRecv(i)
    \/ \E i \in Slots : WrWrite(i)
    \/ \E i \in Slots : WrTick(i)
    \/ \E i \in Slots : WrExit(i)
    \/ \E i \in Slots : HbTick(i)
    \/ \E i \in Slots : HbExit(i)
    \/ \E t \in Topics : Subscribe(t)
    \/ \E t \in Topics : Unsubscribe(t)
    \/ \E c \in Categories : Register(c)
    \/ ValidateConfig
    \/ DoRequest

Spec == Init /\ [][Next]_vars

Solo == {1}

(***************************************************************************)
(* SpecRace: the connection manager with concurrent callers of Connect()   *)
(* and Reconnect(), the reader's failure detection and the automatic       *)
(* reconnection.  Disconnect() is never called; no frame is read or        *)
(* written and nothing is subscribed.                                      *)
(***************************************************************************)
NextRace ==
    \/ \E p \in Procs : CallConnect(p)
    \/ \E p \in Procs : ConnCheck(p)
    \/ \E p \in Procs, ok \in BOOLEAN : Dial(p, ok)
    \/ \E p \in Procs : Install(p)
    \/ \E p \in Procs : OnConnectCb(p)
    \/ \E p \in Procs : ResubSnapshot(p)
    \/ \E p \in Procs : CallReconnect(p)
    \/ \E p \in Procs : StartSpawned(p)
    \/ \E p \in Procs : RcGuard(p)
    \/ \E p \in Procs : RcSet(p)
    \/ \E p \in Procs : RcLoop(p)
    \/ \E p \in Procs : RcDefer(p)
    \/ \E i \in Slots : RdTop(i)
    \/ \E i \in Slots, kind \in ReadErrors : RdError(i, kind)

SpecRace == Init /\ [][NextRace]_vars

(***************************************************************************)
(* SpecSolo: the connection manager with one application thread (its       *)
(* Connect() and Reconnect() calls follow one another), Disconnect(), the  *)
(* reader's failure detection and the automatic reconnection.              *)
(***************************************************************************)
NextSolo ==
    \/ \E p \in Solo : CallConnect(p)
    \/ \E p \in Solo : ConnCheck(p)
    \/ \E p \in Solo, ok \in BOOLEAN : Dial(p, ok)
    \/ \E p \in Solo : Install(p)
    \/ \E p \in Solo : OnConnectCb(p)
    \/ \E p \in Solo : ResubSnapshot(p)
    \/ Disconnect
    \/ \E p \in Solo : CallReconnect(p)
    \/ \E p \in Solo : StartSpawned(p)
    \/ \E p \in Solo : RcGuard(p)
    \/ \E p \in Solo : RcSet(p)
    \/ \E p \in Solo : RcLoop(p)
    \/ \E p \in Solo : RcDefer(p)
    \/ \E i \in Slots : RdTop(i)
    \/ \E i \in Slots, kind \in ReadErrors : RdError(i, kind)

SpecSolo == Init /\ [][NextSolo]_vars

(***************************************************************************)
(* SpecLive: SpecRace's client with unlimited reconnect attempts and a     *)
(* server that accepts every handshake, under fair scheduling of the       *)
(* goroutines: a call that has started and a goroutine that was spawned    *)
(* keep taking their steps.  The application's calls and the failures of   *)
(* the socket are the environment's and need not happen.                   *)
(***************************************************************************)
NextLive ==
    \/ \E p \in Procs : CallConnect(p)
    \/ \E p \in Procs : ConnCheck(p)
    \/ \E p \in Procs : Dial(p, TRUE)
    \/ \E p \in Procs : Install(p)
    \/ \E p \in Procs : OnConnectCb(p)
    \/ \E p \in Procs : ResubSnapshot(p)
    \/ \E p \in Procs : CallReconnect(p)
    \/ \E p \in Procs : StartSpawned(p)
    \/ \E p \in Procs : RcGuard(p)
    \/ \E p \in Procs : RcSet(p)
    \/ \E p \in Procs : RcLoop(p)
    \/ \E p \in Procs : RcDefer(p)
    \/ \E i \in Slots : RdTop(i)
    \/ \E i \in Slots, kind \in ReadErrors : RdError(i, kind)

FairLive ==
    /\ \A p \in Procs : WF_vars(ConnCheck(p))
    /\ \A p \in Procs : WF_vars(Dial(p, TRUE))
    /\ \A p \in Procs : WF_vars(Install(p))
    /\ \A p \in Procs : WF_vars(OnConnectCb(p))
    /\ \A p \in Procs : WF_vars(ResubSnapshot(p))
    /\ \A p \in Procs : WF_vars(StartSpawned(p))
    /\ \A p \in Procs : WF_vars(RcGuard(p))
    /\ \A p \in Procs : WF_vars(RcSet(p))
    /\ \A p \in Procs : WF_vars(RcLoop(p))
    /\ \A p \in Procs : WF_vars(RcDefer(p))
    /\ \A i \in Slots : WF_vars(RdTop(i))

SpecLive == InitWith({0}, {TRUE}) /\ [][NextLive]_vars /\ FairLive

(***************************************************************************)
(* SpecRead: the application registers its handlers on a client built by   *)
(* NewWSClient, then one thread connects it to a server that accepts the   *)
(* handshake, and the readers read frames until the socket fails.          *)
(***************************************************************************)
\* The application's set-up: the handlers are registered before Connect().
RegisterAtSetup(c) == dials = 0 /\ Register(c)

\* The application connects once.
FirstConnect(p) == dials = 0 /\ CallConnect(p)

NextRead ==
    \/ \E c \in Categories : RegisterAtSetup(c)
    \/ \E p \in Solo : FirstConnect(p)
    \/ \E p \in Solo : ConnCheck(p)
    \/ \E p \in Solo : Dial(p, TRUE)
    \/ \E p \in Solo : Install(p)
    \/ \E p \in Solo : OnConnectCb(p)
    \/ \E p \in Solo : ResubSnapshot(p)
    \/ \E i \in Slots : RdTop(i)
    \/ \E i \in Slots, raw \in RawFrames : RdFrame(i, raw)
    \/ \E i \in Slots, kind \in ReadErrors : RdError(i, kind)

SpecRead == InitWith({0}, BOOLEAN) /\ [][NextRead]_vars

(***************************************************************************)
(* SpecQueue: one application thread calls Subscribe / Unsubscribe at any  *)
(* time and connects once to a server that accepts the handshake; Connect  *)
(* replays the topics tracked by then, the writer drains the queue and the *)
(* heartbeat ticks.  The socket does not fail.                             *)
(***************************************************************************)
NextQueue ==
    \/ \E p \in Solo : FirstConnect(p)
    \/ \E p \in Solo : ConnCheck(p)
    \/ \E p \in Solo : Dial(p, TRUE)
    \/ \E p \in Solo : Install(p)
    \/ \E p \in Solo : OnConnectCb(p)
    \/ \E p \in Solo : ResubSnapshot(p)
    \/ \E p \in Solo, t \in Topics : ResubSend(p, t)
    \/ \E i \in Slots : WrRecv(i)
    \/ \E i \in Slots : WrWrite(i)
    \/ \E i \in Slots : HbTick(i)
    \/ \E t \in Topics : Subscribe(t)
    \/ \E t \in Topics : Unsubscribe(t)

SpecQueue == InitWith({0}, {TRUE}) /\ [][NextQueue]_vars

(***************************************************************************)
(* SpecSub: one application thread connects once to a server that accepts  *)
(* every handshake and calls Subscribe / Unsubscribe at any time; the      *)
(* writers drain the queue, the heartbeat ticks, the socket can fail with  *)
(* a network error and the automatic reconnection follows, with its        *)
(* replay.                                                                 *)
(***************************************************************************)
NextSub ==
    \/ \E p \in Solo : FirstConnect(p)
    \/ \E p \in Solo : ConnCheck(p)
    \/ \E p \in Solo : Dial(p, TRUE)
    \/ \E p \in Solo : Install(p)
    \/ \E p \in Solo : OnConnectCb(p)
    \/ \E p \in Solo : ResubSnapshot(p)
    \/ \E p \in Solo, t \in Topics : ResubSend(p, t)
    \/ \E p \in Solo : StartSpawned(p)
    \/ \E p \in Solo : RcGuard(p)
    \/ \E p \in Solo : RcSet(p)
    \/ \E p \in Solo : RcLoop(p)
    \/ \E p \in Solo : RcDefer(p)
    \/ \E i \in Slots : RdTop(i)
    \/ \E i \in Slots : RdError(i, "netErr")
    \/ \E i \in Slots : WrRecv(i)
    \/ \E i \in Slots : WrWrite(i)
    \/ \E i \in Slots : HbTick(i)
    \/ \E t \in Topics : Subscribe(t)
    \/ \E t \in Topics : Unsubscribe(t)

SpecSub == InitWith({0}, {TRUE}) /\ [][NextSub]_vars

(***************************************************************************)
(* SpecReplay: SpecSub's run for an application that subscribes to topics  *)
(* at any time and never unsubscribes, with a heartbeat interval longer    *)
(* than the run: the frames in the queue are those of Subscribe and of the *)
(* replays.                                                                *)
(***************************************************************************)
NextReplay ==
    \/ \E p \in Solo : FirstConnect(p)
    \/ \E p \in Solo : ConnCheck(p)
    \/ \E p \in Solo : Dial(p, TRUE)
    \/ \E p \in Solo : Install(p)
    \/ \E p \in Solo : OnConnectCb(p)
    \/ \E p \in Solo : ResubSnapshot(p)
    \/ \E p \in Solo, t \in Topics : ResubSend(p, t)
    \/ \E p \in Solo : StartSpawned(p)
    \/ \E p \in Solo : RcGuard(p)
    \/ \E p \in Solo : RcSet(p)
    \/ \E p \in Solo : RcLoop(p)
    \/ \E p \in Solo : RcDefer(p)
    \/ \E i \in Slots : RdTop(i)
    \/ \E i \in Slots : RdError(i, "netErr")
    \/ \E i \in Slots : WrRecv(i)
    \/ \E i \in Slots : WrWrite(i)
    \/ \E t \in Topics : Subscribe(t)

SpecReplay == InitWith({0}, {TRUE}) /\ [][NextReplay]_vars

(***************************************************************************)
(* SpecConnect: one application thread calls Connect() and Disconnect() at *)
(* any time and subscribes to topics, so that Connect() has something to   *)
(* replay; the server accepts every handshake, the socket can fail with a  *)
(* network error and the automatic reconnection follows.  Reconnect        *)
(* attempts are unlimited and no writer drains the queue.                  *)
(***************************************************************************)
NextConnect ==
    \/ \E p \in Solo : CallConnect(p)
    \/ \E p \in Solo : ConnCheck(p)
    \/ \E p \in Solo : Dial(p, TRUE)
    \/ \E p \in Solo : Install(p)
    \/ \E p \in Solo : OnConnectCb(p)
    \/ \E p \in Solo : ResubSnapshot(p)
    \/ \E p \in Solo, t \in Topics : ResubSend(p, t)
    \/ Disconnect
    \/ \E p \in Solo : StartSpawned(p)
    \/ \E p \in Solo : RcGuard(p)
    \/ \E p \in Solo : RcSet(p)
    \/ \E p \in Solo : RcLoop(p)
    \/ \E p \in Solo : RcDefer(p)
    \/ \E i \in Slots : RdTop(i)
    \/ \E i \in Slots : RdError(i, "netErr")
    \/ \E t \in Topics : Subscribe(t)

SpecConnect == InitWith({0}, {TRUE}) /\ [][NextConnect]_vars

(***************************************************************************)
(* SpecRestart: a single-threaded application calls Connect() and          *)
(* Disconnect() one after the other, Disconnect() only while no Connect()  *)
(* or Reconnect() is in flight; the server accepts every handshake, the    *)
(* socket can fail with a network error and the automatic reconnection     *)
(* follows.                                                                *)
(***************************************************************************)
\* Disconnect() called while no thread is inside Connect() or Reconnect().
DisconnectWhenIdle == (\A p \in Procs : proc[p].pc = "idle") /\ Disconnect

NextRestart ==
    \/ \E p \in Solo : CallConnect(p)
    \/ \E p \in Solo : ConnCheck(p)
    \/ \E p \in Solo : Dial(p, TRUE)
    \/ \E p \in Solo : Install(p)
    \/ \E p \in Solo : OnConnectCb(p)
    \/ \E p \in Solo : ResubSnapshot(p)
    \/ DisconnectWhenIdle
    \/ \E p \in Solo : StartSpawned(p)
    \/ \E p \in Solo : RcGuard(p)
    \/ \E p \in Solo : RcSet(p)
    \/ \E p \in Solo : RcLoop(p)
    \/ \E p \in Solo : RcDefer(p)
    \/ \E i \in Slots : RdTop(i)
    \/ \E i \in Slots : RdError(i, "netErr")
    \/ \E i \in Slots : WrExit(i)
    \/ \E i \in Slots : HbExit(i)

SpecRestart == InitWith({0}, {TRUE}) /\ [][NextRestart]_vars

(***************************************************************************)
(* SpecReaders: two threads call Connect() and Reconnect() at any time on a *)
(* client whose server accepts every handshake, and the readers read user  *)
(* messages until the socket fails with a network error; the automatic     *)
(* reconnection follows.                                                   *)
(***************************************************************************)
NextReaders ==
    \/ \E p \in Procs : CallConnect(p)
    \/ \E p \in Procs : ConnCheck(p)
    \/ \E p \in Procs : Dial(p, TRUE)
    \/ \E p \in Procs : Install(p)
    \/ \E p \in Procs : OnConnectCb(p)
    \/ \E p \in Procs : ResubSnapshot(p)
    \/ \E p \in Procs : CallReconnect(p)
    \/ \E p \in Procs : StartSpawned(p)
    \/ \E p \in Procs : RcGuard(p)
    \/ \E p \in Procs : RcSet(p)
    \/ \E p \in Procs : RcLoop(p)
    \/ \E p \in Procs : RcDefer(p)
    \/ \E i \in Slots : RdTop(i)
    \/ \E i \in Slots : RdFrame(i, Frame("message", "user_message", TRUE))
    \/ \E i \in Slots : RdError(i, "netErr")

SpecReaders == InitWith({0}, {TRUE}) /\ [][NextReaders]_vars

(***************************************************************************)
(* SpecStop: one application thread connects once and calls Disconnect()   *)
(* once, at any time; the server accepts every handshake, the heartbeat    *)
(* ticks and the writers drain the queue; the socket can fail with a       *)
(* network error and the automatic reconnection follows (also one in       *)
(* flight when Disconnect() is called).  The three loops are scheduled     *)
(* fairly: a loop that can take a step takes one, a select with ctx.Done() *)
(* ready again and again takes that case in the end (Go picks among the    *)
(* ready cases at random), and a ReadMessage() pending once the token has  *)
(* fired returns an error, at once when Disconnect() has closed its socket *)
(* and at the 60 s read deadline otherwise.                                *)
(***************************************************************************)
\* The application calls Disconnect() once.
DisconnectOnce == ~cancelled /\ Disconnect

\* A ReadMessage() pending after the token has fired returns an error.
RdDeadline(i) == cancelled /\ RdError(i, "netErr")

NextStop ==
    \/ \E p \in Solo : FirstConnect(p)
    \/ \E p \in Solo : ConnCheck(p)
    \/ \E p \in Solo : Dial(p, TRUE)
    \/ \E p \in Solo : Install(p)
    \/ \E p \in Solo : OnConnectCb(p)
    \/ \E p \in Solo : ResubSnapshot(p)
    \/ DisconnectOnce
    \/ \E p \in Solo : StartSpawned(p)
    \/ \E p \in Solo : RcGuard(p)
    \/ \E p \in Solo : RcSet(p)
    \/ \E p \in Solo : RcLoop(p)
    \/ \E p \in Solo : RcDefer(p)
    \/ \E i \in Slots : RdTop(i)
    \/ \E i \in Slots : RdError(i, "netErr")
    \/ \E i \in Slots : WrRecv(i)
    \/ \E i \in Slots : WrWrite(i)
    \/ \E i \in Slots : WrExit(i)
    \/ \E i \in Slots : HbTick(i)
    \/ \E i \in Slots : HbExit(i)

FairStop ==
    /\ \A i \in Slots : WF_vars(RdTop(i))
    /\ \A i \in Slots : WF_vars(RdDeadline(i))
    /\ \A i \in Slots : WF_vars(WrWrite(i))
    /\ \A i \in Slots : SF_vars(WrExit(i))
    /\ \A i \in Slots : WF_vars(HbExit(i))

SpecStop == InitWith({0}, {TRUE}) /\ [][NextStop]_vars /\ FairStop

(***************************************************************************)
(* SpecDispatch: SpecRead's application with an error callback registered, *)
(* on a socket that does not fail: the handlers are registered, the client *)
(* connects, and the reader reads and dispatches frames of every kind.     *)
(***************************************************************************)
NextDispatch ==
    \/ \E c \in Categories : RegisterAtSetup(c)
    \/ \E p \in Solo : FirstConnect(p)
    \/ \E p \in Solo : ConnCheck(p)
    \/ \E p \in Solo : Dial(p, TRUE)
    \/ \E p \in Solo : Install(p)
    \/ \E p \in Solo : OnConnectCb(p)
    \/ \E p \in Solo : ResubSnapshot(p)
    \/ \E i \in Slots : RdTop(i)
    \/ \E i \in Slots, raw \in RawFrames : RdFrame(i, raw)

SpecDispatch == InitWith({0}, {TRUE}) /\ [][NextDispatch]_vars

(***************************************************************************)
(* SpecGraceful: one application thread connects once to a server that     *)
(* accepts every handshake, sends user messages and ends every connection  *)
(* with a close frame of code 1000 (normal closure) or 1001 (going away);  *)
(* the automatic reconnection follows.                                     *)
(***************************************************************************)
\* The close codes of a graceful close: CloseNormalClosure, CloseGoingAway.
GracefulCloses == {"normal", "goingAway"}

NextGraceful ==
    \/ \E p \in Solo : FirstConnect(p)
    \/ \E p \in Solo : ConnCheck(p)
    \/ \E p \in Solo : Dial(p, TRUE)
    \/ \E p \in Solo : Install(p)
    \/ \E p \in Solo : OnConnectCb(p)
    \/ \E p \in Solo : ResubSnapshot(p)
    \/ \E p \in Solo : StartSpawned(p)
    \/ \E p \in Solo : RcGuard(p)
    \/ \E p \in Solo : RcSet(p)
    \/ \E p \in Solo : RcLoop(p)
    \/ \E p \in Solo : RcDefer(p)
    \/ \E i \in Slots : RdTop(i)
    \/ \E i \in Slots : RdFrame(i, Frame("message", "user_message", TRUE))
    \/ \E i \in Slots, kind \in GracefulCloses : RdError(i, kind)

SpecGraceful == InitWith({0}, {TRUE}) /\ [][NextGraceful]_vars

(***************************************************************************)
(* SpecConfig: the application builds a Config and calls Validate() on it, *)
(* any number of times.                                                    *)
(***************************************************************************)
InitConfig ==
    /\ ClientInit({0}, {TRUE})
    /\ config \in Configs
    /\ configWas = config
    /\ validateRet = ""
    /\ reply = NoReply
    /\ doRet = NoResult

NextConfig == ValidateConfig

SpecConfig == InitConfig /\ [][NextConfig]_vars

(***************************************************************************)
(* SpecDo: one call of Client.do, for every outcome of its HTTP exchange.  *)
(***************************************************************************)
InitDo ==
    /\ ClientInit({0}, {TRUE})
    /\ config = DefaultConfig
    /\ configWas = DefaultConfig
    /\ validateRet = ""
    /\ reply \in Replies
    /\ doRet = NoResult

NextDo == DoRequest

SpecDo == InitDo /\ [][NextDo]_vars

(***************************************************************************)
(* SpecWrite: one application thread connects once; the heartbeat queues   *)
(* its pings, the writers drain the queue and send the keepalive pings;    *)
(* the server drops the connection (close code 1006), after which writes   *)
(* fail until the automatic reconnection has installed a new connection.   *)
(***************************************************************************)
NextWrite ==
    \/ \E p \in Solo : FirstConnect(p)
    \/ \E p \in Solo : ConnCheck(p)
    \/ \E p \in Solo : Dial(p, TRUE)
    \/ \E p \in Solo : Install(p)
    \/ \E p \in Solo : OnConnectCb(p)
    \/ \E p \in Solo : ResubSnapshot(p)
    \/ \E p \in Solo : StartSpawned(p)
    \/ \E p \in Solo : RcGuard(p)
    \/ \E p \in Solo : RcSet(p)
    \/ \E p \in Solo : RcLoop(p)
    \/ \E p \in Solo : RcDefer(p)
    \/ \E i \in Slots : RdTop(i)
    \/ \E i \in Slots : RdError(i, "abnormal")
    \/ \E i \in Slots : WrRecv(i)
    \/ \E i \in Slots : WrWrite(i)
    \/ \E i \in Slots : WrTick(i)
    \/ \E i \in Slots : HbTick(i)

SpecWrite == InitWith({0}, {TRUE}) /\ [][NextWrite]_vars

(***************************************************************************)
(* SpecTrack: one application thread subscribes and unsubscribes at any    *)
(* time, connects once and calls Disconnect() once; the heartbeat ticks,   *)
(* the socket can fail with a network error and the automatic reconnection *)
(* follows, with its replay.  No writer drains the queue, so the replays   *)
(* and the Subscribe / Unsubscribe calls find it full.                     *)
(***************************************************************************)
NextTrack ==
    \/ \E p \in Solo : FirstConnect(p)
    \/ \E p \in Solo : ConnCheck(p)
    \/ \E p \in Solo : Dial(p, TRUE)
    \/ \E p \in Solo : Install(p)
    \/ \E p \in Solo : OnConnectCb(p)
    \/ \E p \in Solo : ResubSnapshot(p)
    \/ \E p \in Solo, t \in Topics : ResubSend(p, t)
    \/ DisconnectOnce
    \/ \E p \in Solo : StartSpawned(p)
    \/ \E p \in Solo : RcGuard(p)
    \/ \E p \in Solo : RcSet(p)
    \/ \E p \in Solo : RcLoop(p)
    \/ \E p \in Solo : RcDefer(p)
    \/ \E i \in Slots : RdTop(i)
    \/ \E i \in Slots : RdError(i, "netErr")
    \/ \E i \in Slots : HbTick(i)
    \/ \E t \in Topics : Subscribe(t)
    \/ \E t \in Topics : Unsubscribe(t)

SpecTrack == InitWith({0}, {TRUE}) /\ [][NextTrack]_vars

(***************************************************************************)
(* SpecDial: a client built with any endpoint and any token; one           *)
(* application thread calls Connect() at any time, the server accepts or   *)
(* refuses the handshake, the socket can fail with a network error and the *)
(* automatic reconnection follows.                                         *)
(***************************************************************************)
InitDial == NewWebSocketClient({0}, {TRUE}, URLs, Tokens) /\ HttpIdle

NextDial ==
    \/ \E p \in Solo : CallConnect(p)
    \/ \E p \in Solo : ConnCheck(p)
    \/ \E p \in Solo, ok \in BOOLEAN : Dial(p, ok)
    \/ \E p \in Solo : Install(p)
    \/ \E p \in Solo : OnConnectCb(p)
    \/ \E p \in Solo : ResubSnapshot(p)
    \/ \E p \in Solo : StartSpawned(p)
    \/ \E p \in Solo : RcGuard(p)
    \/ \E p \in Solo : RcSet(p)
    \/ \E p \in Solo : RcLoop(p)
    \/ \E p \in Solo : RcDefer(p)
    \/ \E i \in Slots : RdTop(i)
    \/ \E i \in Slots : RdError(i, "netErr")

SpecDial == InitDial /\ [][NextDial]_vars

(***************************************************************************)
(* SpecRegister: every thread registers one handler, with any category, at *)
(* any time, while the reader dispatches frames.                           *)
(***************************************************************************)
NextRegister ==
    \/ \E p \in Procs, c \in Categories : RegLoad(p, c)
    \/ \E p \in Procs : RegStoreBegin(p)
    \/ \E p \in Procs : RegStore(p)
    \/ \E m \in Dispatched : HandleRacing(m)

SpecRegister == InitWith({0}, {TRUE}) /\ [][NextRegister]_vars

(***************************************************************************)
(* SpecPresub: one application thread subscribes to its topics and then    *)
(* connects, once, to a server that accepts the handshake; Connect replays *)
(* the tracked topics and the writer drains the queue.  The socket does    *)
(* not fail.                                                               *)
(***************************************************************************)
\* Subscribe() called before the first Connect().
SubscribeBeforeConnect(t) == dials = 0 /\ (\A p \in Procs : proc[p].pc = "idle") /\ Subscribe(t)

NextPresub ==
    \/ \E t \in Topics : SubscribeBeforeConnect(t)
    \/ \E p \in Solo : FirstConnect(p)
    \/ \E p \in Solo : ConnCheck(p)
    \/ \E p \in Solo : Dial(p, TRUE)
    \/ \E p \in Solo : Install(p)
    \/ \E p \in Solo : OnConnectCb(p)
    \/ \E p \in Solo : ResubSnapshot(p)
    \/ \E p \in Solo, t \in Topics : ResubSend(p, t)
    \/ \E i \in Slots : WrRecv(i)
    \/ \E i \in Slots : WrWrite(i)

SpecPresub == InitWith({0}, {TRUE}) /\ [][NextPresub]_vars

(***************************************************************************)
(* Claims.                                                                 *)
(***************************************************************************)
\* A Reconnect() execution that has passed `if c.isReconnecting { return }`
\* and has not returned.
PastGuard(p) == proc[p].op = "reconnect" /\ proc[p].pc \notin {"idle", "rGuard"}

\* C1: at most one Reconnect() execution is past the in-flight guard at any
\* time, however many callers there are.
C1_SingleFlight == Cardinality({p \in Procs : PastGuard(p)}) <= 1

\* C2: every Disconnect() call returns normally, whatever was called before.
C2_DisconnectNeverFaults == panicked # "Disconnect"

\* C5: a Reconnect() call that gives up has made exactly MaxReconnectAttempts
\* dial attempts and reported the terminal error exactly once, and while the
\* server has accepted no handshake the client is not connected.
C5_ExactlyNAttempts ==
    /\ connsMade = 0 => ~isConnected
    /\ \A p \in Procs :
          proc[p].pc = "rDefer" /\ Exhausted(proc[p].attempts) =>
             /\ proc[p].dials = maxAttempts
             /\ proc[p].termErrs = (IF onErrorSet THEN 1 ELSE 0)
             /\ cb.errMax >= proc[p].termErrs

\* C5's case: against a server that refused every handshake a Reconnect() call
\* with a limit of MaxAttemptsCfg has given up and reported it.
C5_Witness ==
    \E p \in Procs :
       /\ proc[p].pc = "rDefer" /\ Exhausted(proc[p].attempts)
       /\ maxAttempts = MaxAttemptsCfg /\ onErrorSet
       /\ connsMade = 0 /\ dials = MaxAttemptsCfg /\ cb.errMax = 1

\* The reader has reported a lost connection, the client is not connected, and
\* the run's bound on handshakes leaves room for one more.
Lost == ~isConnected /\ cb.onDisconnect > 0 /\ connsMade < MaxConns

\* C6: whenever the reader has detected the loss of the connection, the client
\* eventually is Connected again.
C6_EventuallyReconnected == [](Lost => <>isConnected)

\* A reader has read the frame raw in this step.
ReadStep(raw) == frames' = frames + 1 /\ lastIn' = raw

\* C3: no inbound frame whose type or event is "ping" or "pong" is passed to
\* OnMessage or to a registered handler.
C3_KeepaliveNeverSurfaced ==
    (lastIn.type \in {"ping", "pong"} \/ lastIn.event \in {"ping", "pong"}) =>
        ~delivered /\ lastInv = <<>>

\* The valid user-message frame.
UserFrame == Frame("message", "user_message", TRUE)

\* C7: a malformed frame makes exactly one report through the error callback,
\* reaches no handler and leaves the reader reading; the valid user-message
\* frame read next makes no report and invokes the one registered
\* user-message handler exactly once.
C7_MalformedThenValid ==
    [][/\ (ReadStep(Malformed) /\ onErrorSet) =>
              /\ cb' = [cb EXCEPT !.errParse = @ + 1]
              /\ ~delivered' /\ lastInv' = <<>>
              /\ panicked' = ""
              /\ \E i \in Slots : rd[i].pc = "read" /\ rd'[i].pc = "top"
       /\ (lastIn = Malformed /\ ReadStep(UserFrame) /\ handlers["user"] = 1) =>
              /\ cb' = cb
              /\ delivered'
              /\ lastInv' = <<<<"user", 1>>>>
              /\ panicked' = ""
      ]_vars

\* C7's case: two frames were read, the malformed one (its one report is in
\* cb) and then the valid user-message frame, with one handler registered.
C7_Witness ==
    /\ frames = 2 /\ lastIn = UserFrame /\ onErrorSet /\ handlers["user"] = 1
    /\ cb.errParse = 1 /\ cb.errHandle = 0 /\ cb.errRead = 0
    /\ delivered /\ lastInv = <<<<"user", 1>>>>

\* A Reconnect() call whose Connect() has installed a new connection and
\* whose replay of a non-empty snapshot has ended.
Replayed(p) ==
    /\ proc[p].op = "reconnect" /\ proc[p].pc = "rDefer"
    /\ proc[p].conn # 0 /\ proc[p].snap # {}

\* C4 as stated: when the replay of a successful reconnect has ended, it has
\* put exactly one subscribe frame on the queue for every topic it found in
\* the tracked set.
C4_ReplaySendsEveryTopicOnce ==
    \A p \in Procs : Replayed(p) => \A t \in proc[p].snap : proc[p].enq[t] = 1

\* C4, amended: the replay takes the tracked set as it is when the replay
\* starts, offers each of its topics to the queue exactly once, and the
\* subscribe frame is enqueued if the queue has room at that moment and
\* dropped if it is full; no topic is skipped and none is sent twice.
C4_ReplayBestEffort ==
    /\ [](\A p \in Procs :
            /\ proc[p].pc = "cSend" \/ Replayed(p) =>
                  /\ proc[p].todo \subseteq proc[p].snap
                  /\ \A t \in proc[p].snap :
                        proc[p].enq[t] + proc[p].drop[t] = (IF t \in proc[p].todo THEN 0 ELSE 1)
                  /\ \A t \in Topics \ proc[p].snap :
                        proc[p].enq[t] = 0 /\ proc[p].drop[t] = 0
            /\ Replayed(p) => proc[p].todo = {})
    /\ [][\A p \in Procs :
            /\ (proc[p].pc = "cResub" /\ proc'[p].pc = "cSend") =>
                  proc'[p].snap = subscriptions
            /\ \A t \in Topics :
                  (proc[p].pc = "cSend" /\ t \in proc[p].todo /\ proc'[p] # proc[p]
                      /\ t \notin (IF proc'[p].pc = "idle" THEN {} ELSE proc'[p].todo)) =>
                     IF Len(writeChan) < WriteChanCap
                     THEN writeChan' = Append(writeChan, SubscribeFrame(t, "replay", 0))
                     ELSE writeChan' = writeChan
         ]_vars

\* C4's case: after a failure of the socket the automatic Reconnect() has
\* connected again and its replay of two tracked topics has ended, one frame
\* enqueued and one dropped on the full queue.
C4_Witness ==
    \E p \in Procs :
       /\ Replayed(p) /\ proc[p].snap = Topics /\ connsMade = 2 /\ cb.onDisconnect = 1
       /\ \E t \in Topics : proc[p].enq[t] = 1
       /\ \E t \in Topics : proc[p].drop[t] = 1

\* A producer completes a send in this step: Subscribe / Unsubscribe return,
\* sendPing returns, or the replay ends an iteration.
ProducerStep ==
    \/ calls' = calls + 1
    \/ ticks' = ticks + 1
    \/ \E p \in Procs : proc[p].pc = "cSend" /\ proc'[p] # proc[p]

\* C8: the outbound queue never holds more than its capacity, and on a full
\* queue every producer that is about to send can take its step at once, and
\* its step leaves the queue as it is.
C8_BoundedNonBlocking ==
    /\ [](/\ Len(writeChan) <= WriteChanCap
          /\ Len(writeChan) = WriteChanCap =>
                /\ calls < MaxCalls =>
                      \A t \in Topics : ENABLED Subscribe(t) /\ ENABLED Unsubscribe(t)
                /\ \A i \in Slots : hb[i] = "on" /\ ticks < MaxTicks => ENABLED HbTick(i)
                /\ \A p \in Procs, t \in Topics :
                      proc[p].pc = "cSend" /\ t \in proc[p].todo => ENABLED ResubSend(p, t))
    /\ [][Len(writeChan) = WriteChanCap /\ ProducerStep => writeChan' = writeChan]_vars

\* C8's case: the queue is full, a Subscribe / Unsubscribe call has returned
\* the queue-full error and the heartbeat's ping has been offered.
C8_Witness ==
    /\ Len(writeChan) = WriteChanCap
    /\ last.ret = "full"
    /\ ticks = MaxTicks

\* C9: a Subscribe(T) call made while T is in the tracked set (an earlier
\* Subscribe(T) has enqueued its frame) returns nil and changes neither the
\* outbound queue nor the tracked set.
C9_DuplicateSubscribeNoOp ==
    [][\A t \in Topics :
          (t \in subscriptions /\ calls' = calls + 1
              /\ last'.op = "Subscribe" /\ last'.arg = t) =>
             /\ last'.ret = "nil" /\ ~last'.sent
             /\ writeChan' = writeChan
             /\ subscriptions' = subscriptions
      ]_vars

\* C9's case: Subscribe(T) was called twice and nothing else; the first call's
\* frame is the only frame issued and the second call returned nil.
C9_Witness ==
    \E t \in Topics :
       /\ calls = 2 /\ subscriptions = {t} /\ connsMade = 0
       /\ last = [op |-> "Subscribe", arg |-> t, ret |-> "nil", sent |-> FALSE]
       /\ writeChan = <<SubscribeFrame(t, "api", 1)>>

\* Writer i writes the frame it holds to the socket in this step.
WriterSends(i) == wr[i].pc = "write" /\ wr'[i].pc = "idle" /\ conn \in open

\* C10: the frames that Subscribe / Unsubscribe calls issue for a topic are
\* written to the socket in the order of the calls: no frame of a call is
\* written after the frame of a later call for the same topic.
C10_WrittenInCallOrder ==
    [][\A i \in Slots :
          (WriterSends(i) /\ wr[i].msg.by = "api") =>
             wr[i].msg.n > lastSent[wr[i].msg.event]
      ]_vars

\* The application's call op(t) returns in this step.
ApiCall(op, t) == calls' = calls + 1 /\ last'.op = op /\ last'.arg = t

\* C11: Subscribe(T) for an untracked T enqueues the subscribe frame and
\* tracks T when the queue has room; on a full queue it returns the
\* queue-full error and leaves the queue and the tracked set as they are.
C11_SubscribeTracksIffEnqueued ==
    [][\A t \in Topics :
          (t \notin subscriptions /\ ApiCall("Subscribe", t)) =>
             /\ IF Len(writeChan) < WriteChanCap
                THEN /\ writeChan' = Append(writeChan, SubscribeFrame(t, "api", calls'))
                     /\ subscriptions' = subscriptions \cup {t}
                     /\ last'.ret = "nil"
                ELSE /\ writeChan' = writeChan
                     /\ subscriptions' = subscriptions
                     /\ last'.ret = "full"
             /\ (t \in subscriptions') = last'.sent
      ]_vars

\* C11's case: a Subscribe(T) on the full queue has returned the queue-full
\* error and T is not tracked.
C11_Witness ==
    /\ last.op = "Subscribe" /\ last.ret = "full" /\ ~last.sent
    /\ last.arg \notin subscriptions
    /\ Len(writeChan) = WriteChanCap

\* C12: Unsubscribe(T) for a tracked T enqueues the unsubscribe frame and
\* forgets T when the queue has room; on a full queue it returns the
\* queue-full error and T stays tracked.
C12_UnsubscribeForgetsIffEnqueued ==
    [][\A t \in Topics :
          (t \in subscriptions /\ ApiCall("Unsubscribe", t)) =>
             /\ IF Len(writeChan) < WriteChanCap
                THEN /\ writeChan' = Append(writeChan, UnsubscribeFrame(t, "api", calls'))
                     /\ subscriptions' = subscriptions \ {t}
                     /\ last'.ret = "nil"
                ELSE /\ writeChan' = writeChan
                     /\ subscriptions' = subscriptions
                     /\ last'.ret = "full"
             /\ (t \notin subscriptions') = last'.sent
      ]_vars

\* C12's case: an Unsubscribe(T) on the full queue has returned the
\* queue-full error and T is still tracked.
C12_Witness ==
    /\ last.op = "Unsubscribe" /\ last.ret = "full" /\ ~last.sent
    /\ last.arg \in subscriptions
    /\ Len(writeChan) = WriteChanCap

\* Thread p takes a step of its call in this step.
Steps(p) == proc'[p] # proc[p]

\* C13: a Connect() that finds the client connected returns nil at once: it
\* dials nothing, spawns no loop, invokes no callback and enqueues nothing.
C13_ConnectWhenConnectedNoOp ==
    [][\A p \in Procs :
          (proc[p].pc = "cCheck" /\ isConnected /\ Steps(p)) =>
             /\ IF proc[p].op = "connect"
                THEN proc'[p] = [IdleProc EXCEPT !.ret = "nil"]
                ELSE proc'[p] = [proc[p] EXCEPT !.pc = "rDefer"]
             /\ UNCHANGED <<connVars, subVars, loopVars, dials, connsMade, cb>>
      ]_vars

\* C13's case: the application's Connect() on the connected client has
\* returned nil without a dial.
C13_Witness ==
    \E p \in Procs :
       /\ proc[p].pc = "idle" /\ proc[p].ret = "nil" /\ proc[p].dials = 0
       /\ isConnected /\ cb.onConnect = 1 /\ dials = 1

\* The handshake of thread p fails in this step.
DialFails(p) ==
    proc[p].pc = "cDial" /\ Steps(p) /\ dials' = dials + 1 /\ connsMade' = connsMade

\* C14: a failed handshake returns the error to Connect()'s caller and
\* reports it through the error callback exactly once; the client is not
\* connected, no loop is spawned, the connect callback is not invoked and
\* nothing is enqueued.
C14_FailedHandshake ==
    [][\A p \in Procs :
          DialFails(p) =>
             /\ IF proc[p].op = "connect"
                THEN proc'[p] = [IdleProc EXCEPT !.ret = "err", !.dials = 1]
                ELSE proc'[p].pc = "rLoop"
             /\ cb' = [cb EXCEPT !.errConnect = IF onErrorSet THEN @ + 1 ELSE @]
             /\ ~isConnected'
             /\ UNCHANGED <<connVars, subVars, loopVars>>
      ]_vars

\* C14's case: the application's Connect() has returned the handshake error,
\* reported once, and the client is not connected.
C14_Witness ==
    \E p \in Procs :
       /\ proc[p].pc = "idle" /\ proc[p].ret = "err" /\ proc[p].dials = 1
       /\ onErrorSet /\ cb.errConnect = 1 /\ cb.onConnect = 0
       /\ ~isConnected /\ connsMade = 0 /\ writeChan = <<>>

\* Thread p's Connect() has not yet returned from the connect callback.
BeforeReplay(p) == proc[p].pc \in {"cCheck", "cDial", "cInstall", "cOnConnect", "cResub"}

\* What C15 says of the order of Connect()'s effects, apart from what the
\* connect callback observes: every successful handshake is followed by the
\* installation (Connected, three loops started), then by exactly one
\* invocation of the connect callback, and a replay frame is enqueued only
\* after that.
ConnectOrder ==
    /\ [](/\ \A p \in Procs :
               BeforeReplay(p) =>
                  \A t \in Topics : proc[p].enq[t] = 0 /\ proc[p].drop[t] = 0
          /\ cb.onConnect =
                connsMade - Cardinality({p \in Procs : proc[p].pc \in {"cInstall", "cOnConnect"}}))
    /\ [][\A p \in Procs :
            /\ (proc[p].pc = "cInstall" /\ Steps(p)) =>
                  /\ isConnected' /\ conn' = proc[p].conn
                  /\ rd'[proc[p].conn].pc = "top"
                  /\ wr'[proc[p].conn].pc = "idle"
                  /\ hb'[proc[p].conn] = "on"
                  /\ proc'[p].pc = "cOnConnect"
                  /\ UNCHANGED <<cb, writeChan>>
            /\ (proc[p].pc = "cOnConnect" /\ Steps(p)) =>
                  /\ cb' = [cb EXCEPT !.onConnect = @ + 1]
                  /\ proc'[p].pc = "cResub"
                  /\ UNCHANGED writeChan
         ]_vars

Dials(p) == proc[p].pc = "cDial" /\ Steps(p) /\ dials' = dials + 1

\* C16: once the cancellation token has fired, a running Reconnect() makes no
\* further dial attempt.
C16_NoDialAfterCancel ==
    [][\A p \in Procs : (proc[p].op = "reconnect" /\ Dials(p)) => ~cancelled]_vars

\* C17: after Disconnect() the client becomes Connected again only through
\* an explicit Connect() of the application: no Reconnect(), in flight or
\* spawned by handleDisconnect, installs a connection once the token has
\* fired.  (The weaker half of the claim, which needs no record of when a
\* Connect() call began.)
C17_DisconnectedUntilConnect ==
    [][\A p \in Procs :
          (cancelled /\ proc[p].pc = "cInstall" /\ Steps(p) /\ isConnected') =>
             proc[p].op = "connect"
      ]_vars

\* The reader of some connection gets an error from ReadMessage in this step.
SocketFails == \E i \in Slots : rd[i].pc = "read" /\ rd'[i].pc = "off"

\* Disconnect() runs in this step (a second call ends in the fault of C2).
DisconnectRuns == cancelled' # cancelled \/ panicked' # panicked

\* C18: a client that is Connected, also one restarted by a Connect() after
\* Disconnect(), stays Connected until the socket fails or Disconnect() is
\* called.
C18_RestartStaysConnected ==
    [][(isConnected /\ ~isConnected') => (SocketFails \/ DisconnectRuns)]_vars

\* No thread is inside Connect() or Reconnect() and none is about to start.
Quiescent == pending = 0 /\ \A p \in Procs : proc[p].pc = "idle"

RunningReaders == {i \in Slots : rd[i].pc # "off"}
RunningWriters == {i \in Slots : wr[i].pc # "off"}
RunningHeartbeats == {i \in Slots : hb[i] # "off"}

\* C20: at every moment the client has at most one running reader, at most
\* one running writer and at most one running heartbeat loop.
C20_OneLoopOfEachKind ==
    /\ Cardinality(RunningReaders) <= 1
    /\ Cardinality(RunningWriters) <= 1
    /\ Cardinality(RunningHeartbeats) <= 1

\* The event names of the envelopes that belong to a category.
EventsOf(c) ==
    CASE c = "user" -> {"user_message"}
      [] c = "card" -> {"card_callback"}
      [] c = "approval" -> {"approval_change"}
      [] c = "system" -> InEvents \ TypedEvents

\* A reader reads a frame (lastIn') and passes it to OnMessage, and so to
\* Handle, in this step.
Dispatches == frames' = frames + 1 /\ delivered'

\* A frame of a typed event whose payload its decoder rejects.
Undecodable(raw) == raw.json /\ raw.event \in TypedEvents /\ ~raw.payloadOk

\* C21: no internal failure faults the process: whatever frame is read and
\* whatever the socket does, with or without an error callback registered,
\* the failure is reported or dropped and the process keeps running.
C21_NoInternalFault == panicked # "OnMessage"

\* C22: dispatching an envelope of a category whose payload decodes invokes,
\* within the reader's step, every handler registered for the category exactly
\* once, the k-th invocation being that of the k-th registered handler.
C22_HandlersInRegistrationOrder ==
    [][\A c \in Categories :
          (Dispatches /\ lastIn'.event \in EventsOf(c) /\ ~Undecodable(lastIn')) =>
             /\ Len(lastInv') = handlers[c]
             /\ \A k \in 1..handlers[c] : lastInv'[k] = <<c, k>>
      ]_vars

\* C22's case: a card-callback envelope was dispatched to the two handlers
\* registered for it, the first registered first.
C22_Witness ==
    /\ lastIn = Frame("message", "card_callback", TRUE) /\ delivered
    /\ handlers["card"] = 2
    /\ lastInv = <<<<"card", 1>>, <<"card", 2>>>>

\* C23: Handle routes an envelope by its event name to one category:
\* user_message, card_callback and approval_change to their own handlers,
\* every other event name to the system handlers; all the handlers of that
\* category are invoked (when the payload decodes) and no handler of another
\* category is.
C23_RoutedToOneCategory ==
    [][\A c \in Categories :
          (Dispatches /\ lastIn'.event \in EventsOf(c)) =>
             /\ \A k \in 1..Len(lastInv') : lastInv'[k][1] = c
             /\ ~Undecodable(lastIn') => Len(lastInv') = handlers[c]
      ]_vars

\* C23's case: with a handler registered in every category an envelope with
\* an event name outside the three typed ones went to the system handler and
\* to nothing else.
C23_Witness ==
    /\ lastIn = Frame("message", "notice", TRUE) /\ delivered
    /\ \A c \in Categories : handlers[c] >= 1
    /\ handlers["system"] = 1
    /\ lastInv = <<<<"system", 1>>>>

\* C24: an envelope whose payload fails to decode invokes no handler, is
\* reported once through the error callback and leaves the reader reading;
\* the valid user-message envelope read next is dispatched to the one
\* registered handler and reports nothing.
C24_DecodeFailureIsolated ==
    [][/\ (Dispatches /\ Undecodable(lastIn')) =>
             /\ lastInv' = <<>>
             /\ panicked' = ""
             /\ onErrorSet => cb' = [cb EXCEPT !.errHandle = @ + 1]
             /\ \E i \in Slots : rd[i].pc = "read" /\ rd'[i].pc = "top"
       /\ (Undecodable(lastIn) /\ ReadStep(UserFrame) /\ handlers["user"] = 1) =>
             /\ cb' = cb
             /\ delivered'
             /\ lastInv' = <<<<"user", 1>>>>
      ]_vars

\* The readers that are inside ReadMessage() on connection k.
ReadersOn(k) == {i \in Slots : rd[i].pc = "read" /\ rd[i].conn = k}

\* C25: the frames of one connection are taken off its socket by one reader,
\* which dispatches each frame before it reads the next, so that they reach
\* the message callback one at a time in their order of arrival: at no time
\* are two readers inside ReadMessage() on the same connection (they would
\* take frames k and k+1 and run their callbacks side by side).
C25_OneReaderPerSocket == \A k \in Slots : Cardinality(ReadersOn(k)) <= 1

\* No reader, writer or heartbeat loop is running.
AllLoopsOff == RunningReaders = {} /\ RunningWriters = {} /\ RunningHeartbeats = {}

\* Connect() starts the loops of connection i in this step.
Starts(i) == \E p \in Procs : proc[p].pc = "cInstall" /\ proc[p].conn = i /\ Steps(p)

\* C26: once Disconnect() has fired the token, every reader, writer and
\* heartbeat loop terminates; a loop that finds the token fired at its wait
\* point returns there, and a loop that has returned does nothing more: it
\* runs again only as a new goroutine that Connect() starts.
C26_LoopsTerminate ==
    /\ [](cancelled => <>AllLoopsOff)
    /\ [][\A i \in Slots :
            /\ (rd[i].pc = "top" /\ cancelled /\ rd'[i] # rd[i]) => rd'[i].pc = "off"
            /\ (wr[i].pc = "idle" /\ wr'[i].pc = "off") => cancelled
            /\ (hb[i] = "on" /\ hb'[i] = "off") => cancelled
            /\ (rd[i].pc = "off" /\ rd'[i].pc # "off") => Starts(i)
            /\ (wr[i].pc = "off" /\ wr'[i].pc # "off") => Starts(i)
            /\ (hb[i] = "off" /\ hb'[i] # "off") => Starts(i)
         ]_vars

\* C26's case: the client was connected and, after a failure of the socket,
\* connected again, its heartbeat has ticked, Disconnect() was called, and the
\* loops of both connections have returned.
C26_Witness ==
    /\ cancelled /\ connsMade = 2 /\ cb.onConnect = 2
    /\ ticks >= 1
    /\ AllLoopsOff

\* The reader of connection i returns in this step because ReadMessage()
\* returned an error.
ReaderFails(i) == rd[i].pc = "read" /\ rd'[i].pc = "off"

\* C29: when a reader returns on a read error while the client is Connected,
\* the client becomes not connected, the disconnect callback is invoked once
\* and one Reconnect() goroutine is spawned; over the whole run the
\* disconnect callback has been invoked at most once per connection made.
C29_LossDetected ==
    /\ [](cb.onDisconnect <= connsMade)
    /\ [][\A i \in Slots :
            (ReaderFails(i) /\ isConnected) =>
               /\ ~isConnected'
               /\ cb'.onDisconnect = cb.onDisconnect + 1
               /\ pending' = pending + 1
         ]_vars

\* C29's case: the socket of the first connection has failed while the
\* client was Connected: it is not connected, the disconnect callback has
\* run once and a Reconnect() goroutine is waiting to start.
C29_Witness ==
    /\ connsMade = 1 /\ ~cancelled /\ rd[1].pc = "off"
    /\ ~isConnected /\ cb.onDisconnect = 1 /\ pending = 1

\* C30: when every closure is a graceful close by the peer (code 1000 or
\* 1001), the error callback is never invoked with a read error.
C30_GracefulCloseNotReported == cb.errRead = 0

\* Client.do has returned for an HTTP response that was received in full.
Answered == doRet # NoResult /\ reply.fail = ""

\* C27: for a response with a status of 400 or more Client.do returns an
\* error and no Response, whether or not the body decodes as an
\* ErrorResponse; for a response with a status below 400 it returns no error
\* and the Response with that status and body.
C27_ErrorIffStatusAtLeast400 ==
    Answered =>
       IF reply.status >= 400
       THEN doRet.resp = NoResponse /\ doRet.err \notin {NoError, NoResult.err}
       ELSE /\ doRet.err = NoError
            /\ doRet.resp = [StatusCode |-> reply.status, Body |-> reply.body]

\* C27's case: a response with status 500 whose body does not decode as an
\* ErrorResponse has produced an error and no Response.
C27_Witness ==
    /\ reply = [fail |-> "", status |-> 500, body |-> "string"]
    /\ doRet.resp = NoResponse
    /\ doRet.err = [kind |-> "status", code |-> 500]

\* What C28 says a setting is after a successful Validate().
AfterValidate(was, default) == IF was > 0 THEN was ELSE default

\* C28: Validate() returns an error exactly when ServerAddress is empty; when
\* it returns nil the server address is unchanged, every setting that was
\* positive is unchanged and every other one is its default (30 s, 10, 90 s);
\* and a Validate() on a Config that Validate() has accepted changes nothing
\* and returns nil again.
C28_ValidateDefaults ==
    /\ [](validateRet # "" =>
            /\ (validateRet = "err") <=> (configWas.ServerAddress = "")
            /\ validateRet = "nil" =>
                  /\ config.ServerAddress = configWas.ServerAddress
                  /\ config.Timeout = AfterValidate(configWas.Timeout, 30)
                  /\ config.MaxIdleConnections =
                        AfterValidate(configWas.MaxIdleConnections, 10)
                  /\ config.IdleConnTimeout =
                        AfterValidate(configWas.IdleConnTimeout, 90))
    /\ [][validateRet = "nil" => (config' = config /\ validateRet' = "nil")]_vars

\* C28's case: Validate() has accepted a Config with a zero, a negative and a
\* positive setting: the first two are the defaults, the third is unchanged.
C28_Witness ==
    /\ validateRet = "nil"
    /\ configWas = [ServerAddress |-> "localhost:8008", Timeout |-> 0,
                    MaxIdleConnections |-> -1, IdleConnTimeout |-> 1]
    /\ config = [ServerAddress |-> "localhost:8008", Timeout |-> 30,
                 MaxIdleConnections |-> 10, IdleConnTimeout |-> 1]

\* Writer i's WriteMessage() of a queued frame fails: the socket of c.conn is
\* closed.
FailedWrite(i) == wr[i].pc = "write" /\ wr'[i] # wr[i] /\ conn \notin open

\* What a write error leaves alone: the connection state, the reconnections
\* spawned and in flight, the readers and the heartbeats, the tracked set and
\* the queue.
WriteErrorFrame == UNCHANGED <<connVars, pending, proc, rd, hb, subVars>>

\* C31: a write error in the writer, for a queued frame or for a keepalive
\* ping, is reported through the error callback and changes nothing else:
\* the connection state is unchanged, the writer starts no reconnection, and
\* the writer is back at its select, where it takes the next queued frame.
C31_WriteErrorOnlyReported ==
    /\ [][\A i \in Slots : FailedWrite(i) =>
              /\ cb' = [cb EXCEPT !.errWrite = @ + 1]
              /\ wr'[i].pc = "idle"
              /\ WriteErrorFrame]_vars
    /\ [][cb'.errWrite # cb.errWrite =>
              /\ cb' = [cb EXCEPT !.errWrite = @ + 1]
              /\ conn \notin open
              /\ WriteErrorFrame
              /\ \A i \in Slots : wr'[i] = wr[i] \/ wr'[i].pc = "idle"]_vars
    /\ [](\A i \in Slots : (wr[i].pc = "idle" /\ writeChan # <<>>) => ENABLED WrRecv(i))

\* C31's case: the only connection made has been dropped, a write on it has
\* failed and been reported, and its writer has taken the next frame from
\* the queue.
C31_Witness ==
    /\ connsMade = 1
    /\ conn \notin open
    /\ ~isConnected
    /\ cb.errWrite >= 1
    /\ wr[1].pc = "write"

\* C32: the tracked set is changed only by a Subscribe or Unsubscribe call
\* whose frame was enqueued, and then by that call's topic alone: Connect,
\* Disconnect, a socket failure, the reconnection, the replay (also when it
\* drops a frame because the queue is full) and the heartbeat leave it as it
\* is.
C32_TrackedSetChangedByCallsOnly ==
    [][subscriptions' # subscriptions =>
          /\ calls' = calls + 1
          /\ last'.sent /\ last'.ret = "nil"
          /\ Len(writeChan') = Len(writeChan) + 1
          /\ subscriptions' = IF last'.op = "Subscribe"
                              THEN subscriptions \cup {last'.arg}
                              ELSE subscriptions \ {last'.arg}]_vars

\* C32's case: after a Subscribe, a heartbeat tick and a socket failure, the
\* replay of the reconnection has dropped the topic's frame on the full
\* queue, Disconnect() has been called, and the topic is still tracked.
C32_Witness ==
    /\ subscriptions = {"t1"}
    /\ calls = 1
    /\ ticks >= 1
    /\ cb.onDisconnect >= 1
    /\ cancelled
    /\ proc[1].op = "reconnect"
    /\ proc[1].drop["t1"] = 1

\* A step that puts a replay frame for topic t on the queue.
ReplayEnqueues(t) == writeChan' = Append(writeChan, SubscribeFrame(t, "replay", 0))

\* C37: the replay enqueues subscribe frames only for the topics that are in
\* the tracked set when the replay reads it: a replay that starts after a
\* successful Unsubscribe(T), with no Subscribe(T) since, has no T in its
\* list and enqueues no frame for T.
C37_ReplayOfTrackedOnly ==
    /\ [][\A p \in Procs : (proc[p].pc = "cResub" /\ Steps(p)) =>
              /\ proc'[p].snap = subscriptions
              /\ (last.op = "Unsubscribe" /\ last.sent) => last.arg \notin proc'[p].snap]_vars
    /\ [][\A t \in Topics : ReplayEnqueues(t) =>
              \E p \in Procs : /\ proc[p].pc = "cSend"
                               /\ Steps(p)
                               /\ t \in proc[p].snap]_vars

\* C37's case: t1 and t2 were subscribed, t1 was then unsubscribed, and the
\* replay of the Connect() that followed has enqueued a frame for t2 alone,
\* behind the unsubscribe frame of t1.
C37_Witness ==
    /\ subscriptions = {"t2"}
    /\ last = [op |-> "Unsubscribe", arg |-> "t1", ret |-> "nil", sent |-> TRUE]
    /\ writeChan = <<UnsubscribeFrame("t1", "api", 3), SubscribeFrame("t2", "replay", 0)>>
    /\ proc[1].pc = "idle"
    /\ proc[1].ret = "nil"

\* C33: every dial attempt of Connect() targets the endpoint given in the
\* configuration (config.URL), whatever the token is, and carries the
\* configured token as the bearer of the Authorization header.
C33_DialsConfiguredEndpoint ==
    dials > 0 =>
        /\ Endpoint(lastDial.url) = url
        /\ lastDial.authorization = Bearer(token)

\* The registrations of category c that have returned.
Registered(c) == {p \in Procs : reg[p].pc = "done" /\ reg[p].cat = c}

\* C34: registrations are atomic with respect to each other and to the
\* dispatch: when no registration is in progress, every category's list
\* holds one handler for each registration made with it, also when they ran
\* concurrently, and a dispatch never reads a list that is neither the one
\* before nor the one after a registration.
C34_RegistrationAtomic ==
    /\ (\A p \in Procs : reg[p].pc \in {"idle", "done"}) =>
           \A c \in Categories : handlers[c] = Cardinality(Registered(c))
    /\ panicked # "Handle"

\* A Reconnect() execution that has set the in-flight flag and is looping:
\* it sleeps, or is in the Connect() of an attempt that has not yet
\* installed a connection.
Looping(p) == proc[p].op = "reconnect" /\ proc[p].pc \in {"rLoop", "cCheck", "cDial"}

\* A Reconnect() execution between setting the flag and its deferred reset.
SequenceRunning(p) == proc[p].op = "reconnect" /\ proc[p].pc \notin {"idle", "rGuard", "rSet"}

\* C35: the in-flight flag is true as long as a Reconnect() attempt sequence
\* is looping, whatever other Connect() and Reconnect() calls do meanwhile,
\* and false when no sequence is running.
C35_FlagTracksSequence ==
    /\ \A p \in Procs : Looping(p) => isReconnecting
    /\ (\A p \in Procs : ~SequenceRunning(p)) => ~isReconnecting

\* Writer i writes a subscribe frame of the replay to the socket.
WritesReplay(i) ==
    WriterSends(i) /\ wr[i].msg.type = "subscribe" /\ wr[i].msg.by = "replay"

\* C36: for a topic subscribed with a successful Subscribe() before the
\* client connects, one subscribe frame is written to the socket once the
\* connection is established: the writer does not write a replay frame for
\* a topic after it has written the frame that Subscribe() queued for it.
C36_OneSubscribeFrame ==
    [][\A i \in Slots : WritesReplay(i) => lastSent[wr[i].msg.event] = 0]_vars

\* Reader i reads an application frame (one that decodes and is no heartbeat
\* reply) while readChan is full.
ReadsOnFullBuffer(i) ==
    /\ rd[i].pc = "read" /\ rd'[i] # rd[i]
    /\ frames' = frames + 1
    /\ lastIn'.json /\ ~IsHeartbeatReply(lastIn')
    /\ readChanLen = ReadChanCap

\* C38: the reader never stalls on readChan: the buffer never holds more than
\* its capacity, and an application frame read while the buffer is full,
\* nothing draining it, is still handed to the message callback, leaves the
\* buffer as it is, and the reader is back at the head of its loop.
C38_ReaderNeverStalls ==
    /\ [](readChanLen <= ReadChanCap)
    /\ [][\A i \in Slots : ReadsOnFullBuffer(i) =>
              /\ delivered'
              /\ readChanLen' = readChanLen
              /\ rd'[i].pc = "top"]_vars

\* C38's case: more application frames have been read than the buffer
\* holds, the buffer is full, the frame read last was handed to the message
\* callback and to its handler, and the reader is reading the next one.
C38_Witness ==
    /\ frames > ReadChanCap
    /\ readChanLen = ReadChanCap
    /\ lastIn = UserFrame
    /\ delivered
    /\ handlers["user"] >= 1
    /\ Len(lastInv) = handlers["user"]
    /\ rd[1].pc = "read"

====
